---- MODULE Spec2Model ----
(***************************************************************************)
(* Process orchestration and failure recovery of the CONUS404 batch        *)
(* download: the driver (DownloadDriver.run, both the single-file-ledger   *)
(* variant of pipeline/src/driver.py and the configuration-passing variant *)
(* of src/driver.py), its worker pool, the failure ledger and the retry    *)
(* step (src/retry_failed.py).                                             *)
(*                                                                         *)
(* Strings that the code formats or parses (dates, file names) are         *)
(* sequences of one-character strings.  A JSON object is an association    *)
(* list (sequence of [key, val] pairs) in insertion order, as a Python     *)
(* dict is.                                                                *)
(***************************************************************************)
EXTENDS Integers, Sequences, FiniteSets, TLC

(***************************************************************************)
(* Bounds of the exploration.                                              *)
(***************************************************************************)
\* Longest date range explored (days from start_date to end_date).
MaxDates == 3
\* Largest concurrency bound max_processes explored.
MaxProcs == 2
\* Number of recordFailure calls explored by LedgerSpec.
MaxCalls == 3

(***************************************************************************)
(* Program constants.                                                      *)
(***************************************************************************)
MAX_RETRY_PROCESSES == 2

\* config.py: MEMORY_WARNING_THRESHOLD, MEMORY_CRITICAL_THRESHOLD (percent)
MEMORY_WARNING_THRESHOLD == 85

MEMORY_CRITICAL_THRESHOLD == 90

START_DATE == [y |-> 1988, m |-> 3, d |-> 31]

\* list(VARIABLE_AGG_MAP.keys())
VARIABLE_AGG_MAP_keys ==
  <<"T2", "Q2", "TD2", "PSFC", "ACRAINLSM", "LAI", "U10", "V10", "Z">>

\* Exit statuses a worker process can end with, as Popen.poll() reports
\* them: 0, 1 (the worker's own sys.exit codes) and -9 (killed by a signal).
ExitCodes == {0, 1, -9}

(***************************************************************************)
(* Calendar dates (datetime.date) and their conversions.                   *)
(***************************************************************************)
IsLeap(y) == (y % 4 = 0 /\ y % 100 # 0) \/ y % 400 = 0

DaysInMonth(y, m) ==
  IF m = 2 THEN (IF IsLeap(y) THEN 29 ELSE 28)
  ELSE IF m \in {4, 6, 9, 11} THEN 30 ELSE 31

\* date + dt.timedelta(days=1)
AddDay(date) ==
  IF date.d < DaysInMonth(date.y, date.m)
    THEN [date EXCEPT !.d = date.d + 1]
  ELSE IF date.m < 12
    THEN [y |-> date.y, m |-> date.m + 1, d |-> 1]
  ELSE [y |-> date.y + 1, m |-> 1, d |-> 1]

\* a <= b on datetime.date
DateLE(a, b) ==
  \/ a.y < b.y
  \/ a.y = b.y /\ a.m < b.m
  \/ a.y = b.y /\ a.m = b.m /\ a.d <= b.d

Digits == <<"0", "1", "2", "3", "4", "5", "6", "7", "8", "9">>

RECURSIVE ZeroPad(_, _)
\* n rendered in decimal, zero-padded to width characters (%Y, %m, %d)
ZeroPad(n, width) ==
  IF width = 0 THEN <<>>
  ELSE ZeroPad(n \div 10, width - 1) \o <<Digits[(n % 10) + 1]>>

\* date.strftime("%Y-%m-%d")
strftime(date) ==
  ZeroPad(date.y, 4) \o <<"-">> \o ZeroPad(date.m, 2) \o <<"-">>
    \o ZeroPad(date.d, 2)

DigitValue(c) == CHOOSE v \in 0..9 : Digits[v + 1] = c

IsDigit(c) == \E v \in 0..9 : Digits[v + 1] = c

RECURSIVE ParseNat(_)
\* value of a non-empty sequence of digit characters
ParseNat(s) ==
  IF Len(s) = 0 THEN 0
  ELSE 10 * ParseNat(SubSeq(s, 1, Len(s) - 1)) + DigitValue(s[Len(s)])

AllDigits(s) == Len(s) > 0 /\ \A i \in 1..Len(s) : IsDigit(s[i])

\* dt.datetime.strptime(s, "%Y-%m-%d").date(): <<date>> when s parses,
\* <<>> when strptime raises ValueError.  %Y takes exactly four digits,
\* %m and %d one or two digits.
strptime(s) ==
  LET dashes == {i \in 1..Len(s) : s[i] = "-"}
  IN IF Cardinality(dashes) # 2 THEN <<>>
     ELSE LET i1 == CHOOSE i \in dashes : \A j \in dashes : i <= j
              i2 == CHOOSE i \in dashes : \A j \in dashes : j <= i
              ys == SubSeq(s, 1, i1 - 1)
              ms == SubSeq(s, i1 + 1, i2 - 1)
              ds == SubSeq(s, i2 + 1, Len(s))
          IN IF /\ AllDigits(ys) /\ Len(ys) = 4
                /\ AllDigits(ms) /\ Len(ms) \in {1, 2}
                /\ AllDigits(ds) /\ Len(ds) \in {1, 2}
               THEN LET y == ParseNat(ys)
                        m == ParseNat(ms)
                        d == ParseNat(ds)
                    IN IF /\ y >= 1
                          /\ m \in 1..12
                          /\ d >= 1 /\ d <= DaysInMonth(y, m)
                         THEN <<[y |-> y, m |-> m, d |-> d]>>
                         ELSE <<>>
               ELSE <<>>

RECURSIVE dates_from(_, _)
\* the while loop of get_dates_to_process, started at current
dates_from(current, end) ==
  IF DateLE(current, end)
    THEN <<current>> \o dates_from(AddDay(current), end)
    ELSE <<>>

\* get_dates_to_process that gives the start date when the range is empty
get_dates_to_process_at_least_one(start, end) ==
  IF DateLE(start, end) THEN dates_from(start, end) ELSE <<start>>

RECURSIVE DaysBeforeYear(_)
\* days from the first of January 1987 to the first of January of year y
DaysBeforeYear(y) ==
  IF y <= 1987 THEN 0
  ELSE DaysBeforeYear(y - 1) + (IF IsLeap(y - 1) THEN 366 ELSE 365)

RECURSIVE DaysBeforeMonth(_, _)
\* days of year y before the first of month m
DaysBeforeMonth(y, m) ==
  IF m = 1 THEN 0 ELSE DaysBeforeMonth(y, m - 1) + DaysInMonth(y, m - 1)

\* date.toordinal(), counted from the end of 1986: (a - b).days is
\* toordinal(a) - toordinal(b)
toordinal(date) ==
  DaysBeforeYear(date.y) + DaysBeforeMonth(date.y, date.m) + date.d

\* date.fromordinal(n): the date with that day number
fromordinal(n) ==
  LET y == CHOOSE yy \in 1987..1990 :
             DaysBeforeYear(yy) < n /\ n <= DaysBeforeYear(yy + 1)
      rest == n - DaysBeforeYear(y)
      m == CHOOSE mm \in 1..12 :
             /\ DaysBeforeMonth(y, mm) < rest
             /\ rest <= DaysBeforeMonth(y, mm) + DaysInMonth(y, mm)
  IN  [y |-> y, m |-> m, d |-> rest - DaysBeforeMonth(y, m)]

\* download.py dates_for_range: start_date + dt.timedelta(days=i) for i in
\* range((end_date - start_date).days + 1)
dates_for_range(start, end) ==
  LET n == toordinal(end) - toordinal(start) + 1
  IN  IF n <= 0 THEN <<>>
      ELSE [i \in 1..n |-> fromordinal(toordinal(start) + i - 1)]

\* get_dates_to_process whose loop stops before the end date
get_dates_to_process_excludes_end(start, end) ==
  IF DateLE(start, end)
    THEN SubSeq(dates_from(start, end), 1, Len(dates_from(start, end)) - 1)
    ELSE <<>>

\* DownloadDriver.get_dates_to_process
get_dates_to_process(start, end) == dates_from(start, end)

RECURSIVE DateAt(_)
\* the k-th day after START_DATE
DateAt(k) == IF k = 0 THEN START_DATE ELSE AddDay(DateAt(k - 1))

(***************************************************************************)
(* JSON objects (Python dicts) as association lists.                       *)
(***************************************************************************)
EmptyMap == <<>>

Keys(m) == {m[i].key : i \in 1..Len(m)}

Has(m, k) == \E i \in 1..Len(m) : m[i].key = k

Get(m, k) == m[CHOOSE i \in 1..Len(m) : m[i].key = k].val

\* m[k] = v : replaces the value in place, or appends a new pair
Put(m, k, v) ==
  IF Has(m, k)
    THEN [i \in 1..Len(m) |-> IF m[i].key = k THEN [key |-> k, val |-> v]
                                            ELSE m[i]]
    ELSE Append(m, [key |-> k, val |-> v])

RECURSIVE Del(_, _)
\* del m[k]
Del(m, k) ==
  IF Len(m) = 0 THEN <<>>
  ELSE IF m[1].key = k THEN Del(Tail(m), k)
  ELSE <<m[1]>> \o Del(Tail(m), k)

(***************************************************************************)
(* Files.  A JSON file is absent, holds text json.load cannot parse      *)
(* (JSONDecodeError), holds bytes the text-mode read cannot decode         *)
(* (UnicodeDecodeError), or holds a JSON object.                           *)
(***************************************************************************)
AbsentFile == [kind |-> "absent", map |-> EmptyMap]
CorruptFile == [kind |-> "corrupt", map |-> EmptyMap]
UndecodableFile == [kind |-> "undecodable", map |-> EmptyMap]
DictFile(m) == [kind |-> "dict", map |-> m]

(***************************************************************************)
(* Failure records and the two log_failure methods.                        *)
(***************************************************************************)
\* FailureRecord with a message that does not carry the observed status
FailureRecord_fixed_status(date_str, return_code, now) ==
  [date |-> date_str,
   variables_to_retry |-> VARIABLE_AGG_MAP_keys,
   error_message |-> [text |-> "Subprocess failed with exit code",
                      code |-> 1],
   last_attempt |-> now]

\* the record log_failure builds
FailureRecord(date_str, return_code, now) ==
  [date |-> date_str,
   variables_to_retry |-> VARIABLE_AGG_MAP_keys,
   error_message |-> [text |-> "Subprocess failed with exit code",
                      code |-> return_code],
   last_attempt |-> now]

\* a record left in the ledger file by an earlier run
StaleRecord(date_str) ==
  [date |-> date_str,
   variables_to_retry |-> <<"T2">>,
   error_message |-> [text |-> "Subprocess failed with exit code",
                      code |-> 1],
   last_attempt |-> 0]

\* log_failure raises inside its try block and reports CRITICAL: ok = FALSE
\* is makedirs or open raising; reading a file whose bytes cannot be
\* decoded raises an exception that except json.JSONDecodeError lets pass
log_failure_raises(file, ok) == ~ok \/ file.kind = "undecodable"

\* log_failure that does not read the existing failures before it writes
log_failure_forgets_existing(file, date, return_code, now, ok) ==
  IF log_failure_raises(file, ok) THEN file
  ELSE LET date_str == strftime(date)
       IN DictFile(Put(EmptyMap, date_str,
                       FailureRecord(date_str, return_code, now)))

\* pipeline/src/driver.py log_failure: read-modify-write of the single
\* ledger file.  An exception inside the try block is caught and reported
\* by the method: the file keeps its content.
log_failure(file, date, return_code, now, ok) ==
  IF log_failure_raises(file, ok) THEN file
  ELSE LET failures == IF file.kind = "dict" THEN file.map ELSE EmptyMap
           date_str == strftime(date)
       IN DictFile(Put(failures, date_str,
                       FailureRecord(date_str, return_code, now)))

JsonSuffix == <<".", "j", "s", "o", "n">>

\* src/driver.py log_failure: one file failed_jobs/<date>.json per date.
\* dir maps file names to the record each file holds.
log_failure_dir(dir, date, return_code, now, ok) ==
  IF ~ok THEN dir
  ELSE LET date_str == strftime(date)
       IN Put(dir, date_str \o JsonSuffix,
              FailureRecord(date_str, return_code, now))

(***************************************************************************)
(* State.                                                                  *)
(***************************************************************************)
VARIABLES
  variant,            \* "pipeline": pipeline/src/driver.py, "config": src/driver.py
  start_date,         \* DownloadDriver.start_date
  end_date,           \* DownloadDriver.end_date
  max_processes,      \* DownloadDriver.max_processes
  pc,                 \* position of the driver in run()
  dates_to_process,   \* run(): dates_to_process
  date_index,         \* run(): date_index
  active_processes,   \* DownloadDriver.active_processes, in insertion order
  completed_dates,    \* DownloadDriver.completed_dates
  failed_dates,       \* DownloadDriver.failed_dates
  failed_jobs_file,   \* content of data/failed_jobs.json
  failed_jobs_dir,    \* content of the directory failed_jobs/
  clock,              \* dt.datetime.now()
  launch_log,         \* the "Launching download i/total: date" lines
  launch_errors,      \* the "ERROR: Failed to launch subprocess" lines
  ledger_errors,      \* the "CRITICAL: Failed to log failure" lines
  clear_warning,      \* "WARNING: Could not clear failure log" was logged
  monitor_report,     \* memory report of this loop iteration, or Initial/Final
  retry_result,       \* what subprocess.run of the retry script gave the driver
  exit_code,          \* exit status of the driver process
  r_pc,               \* position of the retry script in main()
  r_dates_to_process, \* retry main(): dates_to_process
  r_date_index,       \* retry main(): date_index
  r_active_processes, \* retry main(): active_processes
  r_completed_dates,  \* retry main(): completed_dates
  r_failed_dates,     \* retry main(): failed_dates
  remaining_failures, \* retry main(): remaining_failures
  ultimate_failure_file, \* content of ultimate_failures.json
  ultimate_writes,    \* completed writes of ultimate_failures.json
  r_monitor_report,   \* memory report of this iteration of the retry loop
  r_launch_log,       \* the "Launching retry i/total: date" lines
  r_exit_code,        \* exit status of the retry script
  w_pc,               \* position of a worker in single_download.py
  w_pid,              \* its process id, 0 when it was started by hand
  w_argv,             \* sys.argv[1:] of the worker
  w_result,           \* what the download function returned to __main__
  w_exit_code,        \* exit status of the worker that ended last
  w_cleanup_error,    \* "ERROR: Could not clean up corrupt file" was printed
  daily_files         \* content of data/unprocessed/daily

driver_vars ==
  <<variant, start_date, end_date, max_processes, pc, dates_to_process,
    date_index, active_processes, completed_dates, failed_dates,
    launch_log, launch_errors, ledger_errors, clear_warning, monitor_report,
    retry_result, exit_code>>

ledger_vars == <<failed_jobs_file, failed_jobs_dir, clock>>

retry_vars ==
  <<r_pc, r_dates_to_process, r_date_index, r_active_processes,
    r_completed_dates, r_failed_dates, remaining_failures,
    ultimate_failure_file, ultimate_writes, r_monitor_report, r_launch_log,
    r_exit_code>>

worker_vars ==
  <<w_pc, w_pid, w_argv, w_result, w_exit_code, w_cleanup_error,
    daily_files>>

vars == <<driver_vars, ledger_vars, retry_vars, worker_vars>>

\* key of the second day of the range as strptime also accepts it: "1988-4-1"
Unpadded(n) == IF n < 10 THEN ZeroPad(n, 1) ELSE ZeroPad(n, 2)

NonCanonicalKey(date) ==
  ZeroPad(date.y, 4) \o <<"-">> \o Unpadded(date.m) \o <<"-">>
    \o Unpadded(date.d)

\* daily_file = None, validation_passed = False
NoResult == [daily_file |-> <<>>, validation_passed |-> FALSE]

\* a ledger key strptime rejects
UnparsableKey == <<"n", "o", "n", "e">>

\* what data/failed_jobs.json can hold when a run starts
InitialLedgerFiles ==
  { AbsentFile,
    CorruptFile,
    UndecodableFile,
    DictFile(EmptyMap),
    DictFile(<<[key |-> strftime(DateAt(1)),
                val |-> StaleRecord(strftime(DateAt(1)))]>>),
    DictFile(<<[key |-> NonCanonicalKey(DateAt(1)),
                val |-> StaleRecord(NonCanonicalKey(DateAt(1)))]>>),
    DictFile(<<[key |-> UnparsableKey,
                val |-> StaleRecord(UnparsableKey)]>>) }

\* DownloadDriver.__init__ and the files found at start
Init ==
  /\ variant \in {"pipeline", "config"}
  /\ start_date \in {DateAt(0), DateAt(1)}
  /\ end_date \in {DateAt(k) : k \in 0..(MaxDates - 1)}
  /\ max_processes \in 1..MaxProcs
  /\ pc = "start"
  /\ dates_to_process = <<>>
  /\ date_index = 0
  /\ active_processes = <<>>
  /\ completed_dates = <<>>
  /\ failed_dates = <<>>
  /\ failed_jobs_file \in InitialLedgerFiles
  /\ failed_jobs_dir = EmptyMap
  /\ clock = 1
  /\ launch_log = <<>>
  /\ launch_errors = <<>>
  /\ ledger_errors = <<>>
  /\ clear_warning = FALSE
  /\ monitor_report = <<>>
  /\ retry_result = "none"
  /\ exit_code = -1
  /\ r_pc = "idle"
  /\ r_dates_to_process = <<>>
  /\ r_date_index = 0
  /\ r_active_processes = <<>>
  /\ r_completed_dates = <<>>
  /\ r_failed_dates = <<>>
  /\ remaining_failures = EmptyMap
  /\ ultimate_failure_file = AbsentFile
  /\ ultimate_writes = 0
  /\ r_monitor_report = <<>>
  /\ r_launch_log = <<>>
  /\ r_exit_code = -1
  /\ w_pc = "idle"
  /\ w_pid = 0
  /\ w_argv = <<>>
  /\ w_result = NoResult
  /\ w_exit_code = -1
  /\ w_cleanup_error = FALSE
  /\ daily_files = EmptyMap

(***************************************************************************)
(* The main pass: DownloadDriver.run.                                      *)
(***************************************************************************)
\* loop_condition without the test of the active set
loop_condition_ignores_active(idx, total, active) == idx < total

\* while date_index < total_dates or self.active_processes
loop_condition(idx, total, active) == idx < total \/ Len(active) > 0

\* launch_capacity with the bound test off by one (<= for <)
launch_capacity_off_by_one(active, bound, idx, total) ==
  Len(active) <= bound /\ idx < total

\* while len(self.active_processes) < self.max_processes and
\*       date_index < total_dates
launch_capacity(active, bound, idx, total) ==
  Len(active) < bound /\ idx < total

\* the process id the operating system gives a new child: one that no
\* child not yet reaped holds
NewPid(active) ==
  CHOOSE p \in 1..(Len(active) + 1) :
    /\ \A i \in 1..Len(active) : active[i].pid # p
    /\ \A q \in 1..(p - 1) : \E i \in 1..Len(active) : active[i].pid = q

\* the dated handle launch_subprocess stores under proc.pid
NewHandle(active, date) ==
  [pid |-> NewPid(active), date |-> date, exited |-> FALSE, returncode |-> 0]

\* percent_used values psutil.virtual_memory() may report: both thresholds
\* and the values next above them
MemoryReadings ==
  {MEMORY_WARNING_THRESHOLD, MEMORY_WARNING_THRESHOLD + 1,
   MEMORY_CRITICAL_THRESHOLD, MEMORY_CRITICAL_THRESHOLD + 1}

\* what psutil can tell of a child that has ended and is not yet reaped:
\* a status line of a zombie, or NoSuchProcess ("Process ended")
EndedObservations == {"zombie", "ended"}

\* log_memory_stats: the alert lines that follow the "Memory Stats" line
log_memory_stats(percent_used) ==
  IF percent_used > MEMORY_CRITICAL_THRESHOLD THEN <<"CRITICAL">>
  ELSE IF percent_used > MEMORY_WARNING_THRESHOLD THEN <<"WARNING">>
  ELSE <<>>

\* self.log_memory_stats(context) outside the loop: the report it logs
memory_report(context, percent_used) ==
  <<[context |-> context,
     percent_used |-> percent_used,
     alerts |-> log_memory_stats(percent_used)]>>

\* run() up to the loop.  pipeline variant: the ledger file is cleared
\* (ok = FALSE: the write raises, a WARNING is logged).  config variant:
\* setup_asset (ok = FALSE: it raises and run() is abandoned).
RunStart(ok, percent_used) ==
  /\ pc = "start"
  /\ monitor_report' = memory_report("Initial", percent_used)
  /\ LET dates == get_dates_to_process(start_date, end_date)
     IN IF variant = "pipeline"
          THEN /\ failed_jobs_file' =
                    IF ok THEN DictFile(EmptyMap) ELSE failed_jobs_file
               /\ clear_warning' = ~ok
               /\ dates_to_process' = dates
               /\ pc' = IF loop_condition(0, Len(dates), active_processes)
                          THEN "check" ELSE "drained"
               /\ exit_code' = exit_code
          ELSE /\ failed_jobs_file' = failed_jobs_file
               /\ clear_warning' = clear_warning
               /\ dates_to_process' = IF ok THEN dates ELSE <<>>
               /\ pc' = IF ~ok THEN "done"
                        ELSE IF loop_condition(0, Len(dates), active_processes)
                          THEN "check" ELSE "drained"
               /\ exit_code' = IF ok THEN exit_code ELSE 1
  /\ UNCHANGED <<variant, start_date, end_date, max_processes, date_index,
                 active_processes, completed_dates, failed_dates, launch_log,
                 launch_errors, ledger_errors, retry_result,
                 failed_jobs_dir, clock, retry_vars,
                 worker_vars>>

RECURSIVE check_loop_positive_is_failure(_, _, _)
\* check_loop that takes only a positive exit status for a failure
\* (return_code > 0 for return_code != 0): a worker killed by a signal
\* counts as completed
check_loop_positive_is_failure(i, st, oks) ==
  IF i > Len(st.items) THEN st
  ELSE LET h == st.items[i]
       IN IF ~h.exited THEN check_loop_positive_is_failure(i + 1, st, oks)
          ELSE IF h.returncode <= 0
            THEN check_loop_positive_is_failure(i + 1,
                   [st EXCEPT !.completed_pids = @ \cup {h.pid},
                              !.completed = Append(@, h.date)],
                   oks)
          ELSE check_loop_positive_is_failure(i + 1,
                   [st EXCEPT
                      !.completed_pids = @ \cup {h.pid},
                      !.failed = Append(@, h.date),
                      !.file = IF variant = "pipeline"
                                 THEN log_failure(@, h.date, h.returncode,
                                                  st.clock, oks[i])
                                 ELSE @,
                      !.dir = IF variant = "config"
                                THEN log_failure_dir(@, h.date, h.returncode,
                                                     st.clock, oks[i])
                                ELSE @,
                      !.errors =
                         IF variant = "pipeline"
                           THEN IF log_failure_raises(st.file, oks[i])
                                  THEN Append(@, h.date) ELSE @
                           ELSE IF oks[i] THEN @ ELSE Append(@, h.date),
                      !.clock = @ + 1],
                   oks)

RECURSIVE check_loop_with_deadline(_, _, _)
\* check_loop of a coordinator with a deadline: a handle whose process is
\* still running is terminated and classified as failed
check_loop_with_deadline(i, st, oks) ==
  IF i > Len(st.items) THEN st
  ELSE LET h == st.items[i]
       IN IF h.exited /\ h.returncode = 0
            THEN check_loop_with_deadline(i + 1,
                   [st EXCEPT !.completed_pids = @ \cup {h.pid},
                              !.completed = Append(@, h.date)],
                   oks)
          ELSE check_loop_with_deadline(i + 1,
                   [st EXCEPT
                      !.completed_pids = @ \cup {h.pid},
                      !.failed = Append(@, h.date),
                      !.file = IF variant = "pipeline"
                                 THEN log_failure(@, h.date, -9,
                                                  st.clock, oks[i])
                                 ELSE @,
                      !.dir = IF variant = "config"
                                THEN log_failure_dir(@, h.date, -9,
                                                     st.clock, oks[i])
                                ELSE @,
                      !.errors =
                         IF variant = "pipeline"
                           THEN IF log_failure_raises(st.file, oks[i])
                                  THEN Append(@, h.date) ELSE @
                           ELSE IF oks[i] THEN @ ELSE Append(@, h.date),
                      !.clock = @ + 1],
                   oks)

RECURSIVE check_loop(_, _, _)
\* the for loop of check_completed_processes over the snapshot st.items,
\* from position i on.  oks[i] tells whether log_failure for the handle at
\* position i completes without an exception.
check_loop(i, st, oks) ==
  IF i > Len(st.items) THEN st
  ELSE LET h == st.items[i]
       IN IF ~h.exited THEN check_loop(i + 1, st, oks)
          ELSE IF h.returncode = 0
            THEN check_loop(i + 1,
                   [st EXCEPT !.completed_pids = @ \cup {h.pid},
                              !.completed = Append(@, h.date)],
                   oks)
          ELSE check_loop(i + 1,
                   [st EXCEPT
                      !.completed_pids = @ \cup {h.pid},
                      !.failed = Append(@, h.date),
                      !.file = IF variant = "pipeline"
                                 THEN log_failure(@, h.date, h.returncode,
                                                  st.clock, oks[i])
                                 ELSE @,
                      !.dir = IF variant = "config"
                                THEN log_failure_dir(@, h.date, h.returncode,
                                                     st.clock, oks[i])
                                ELSE @,
                      !.errors =
                         IF variant = "pipeline"
                           THEN IF log_failure_raises(st.file, oks[i])
                                  THEN Append(@, h.date) ELSE @
                           ELSE IF oks[i] THEN @ ELSE Append(@, h.date),
                      !.clock = @ + 1],
                   oks)

\* remove_completed that deletes nothing
remove_completed_keeps_all(active, completed_pids) == active

\* for pid in completed_pids: del self.active_processes[pid]
remove_completed(active, completed_pids) ==
  SelectSeq(active, LAMBDA h : h.pid \notin completed_pids)

\* check_completed_processes()
CheckCompleted ==
  /\ pc = "check"
  /\ \E oks \in [1..Len(active_processes) -> BOOLEAN] :
       LET st == check_loop(1,
                   [items |-> active_processes,
                    completed_pids |-> {},
                    completed |-> completed_dates,
                    failed |-> failed_dates,
                    file |-> failed_jobs_file,
                    dir |-> failed_jobs_dir,
                    errors |-> ledger_errors,
                    clock |-> clock],
                   oks)
       IN /\ active_processes' =
               remove_completed(active_processes, st.completed_pids)
          /\ completed_dates' = st.completed
          /\ failed_dates' = st.failed
          /\ failed_jobs_file' = st.file
          /\ failed_jobs_dir' = st.dir
          /\ ledger_errors' = st.errors
          /\ clock' = st.clock
  /\ pc' = "launch"
  /\ monitor_report' = <<>>
  /\ UNCHANGED <<clear_warning, variant, start_date, end_date, max_processes,
                 dates_to_process, date_index, launch_log, launch_errors,
                 retry_result, exit_code, retry_vars,
                 worker_vars>>

\* Launch that advances date_index only when the launch succeeded, so a
\* date whose launch failed is taken again
Launch_retry_on_error(ok) ==
  /\ pc = "launch"
  /\ launch_capacity(active_processes, max_processes, date_index,
                     Len(dates_to_process))
  /\ LET date == dates_to_process[date_index + 1]
     IN /\ date_index' = IF ok THEN date_index + 1 ELSE date_index
        /\ launch_log' =
             Append(launch_log, [idx |-> date_index + 1, date |-> date])
        /\ IF ok
             THEN /\ active_processes' =
                       Append(active_processes,
                              NewHandle(active_processes, date))
                  /\ launch_errors' = launch_errors
             ELSE /\ active_processes' = active_processes
                  /\ launch_errors' = Append(launch_errors, date)
  /\ UNCHANGED <<variant, start_date, end_date, max_processes, pc,
                 dates_to_process, completed_dates, failed_dates,
                 ledger_errors, clear_warning,
                 monitor_report, retry_result, exit_code,
                 ledger_vars, retry_vars,
                 worker_vars>>

\* Launch that takes the dates from the end of the list
Launch_last_first(ok) ==
  /\ pc = "launch"
  /\ launch_capacity(active_processes, max_processes, date_index,
                     Len(dates_to_process))
  /\ LET date == dates_to_process[Len(dates_to_process) - date_index]
     IN /\ date_index' = date_index + 1
        /\ launch_log' =
             Append(launch_log, [idx |-> date_index + 1, date |-> date])
        /\ IF ok
             THEN /\ active_processes' =
                       Append(active_processes,
                              NewHandle(active_processes, date))
                  /\ launch_errors' = launch_errors
             ELSE /\ active_processes' = active_processes
                  /\ launch_errors' = Append(launch_errors, date)
  /\ UNCHANGED <<variant, start_date, end_date, max_processes, pc,
                 dates_to_process, completed_dates, failed_dates,
                 ledger_errors, clear_warning,
                 monitor_report, retry_result, exit_code,
                 ledger_vars, retry_vars,
                 worker_vars>>

\* Launch that gives up the remaining dates when a launch fails
Launch_abort_on_error(ok) ==
  /\ pc = "launch"
  /\ launch_capacity(active_processes, max_processes, date_index,
                     Len(dates_to_process))
  /\ LET date == dates_to_process[date_index + 1]
     IN /\ date_index' = IF ok THEN date_index + 1 ELSE Len(dates_to_process)
        /\ launch_log' =
             Append(launch_log, [idx |-> date_index + 1, date |-> date])
        /\ IF ok
             THEN /\ active_processes' =
                       Append(active_processes,
                              NewHandle(active_processes, date))
                  /\ launch_errors' = launch_errors
             ELSE /\ active_processes' = active_processes
                  /\ launch_errors' = Append(launch_errors, date)
  /\ UNCHANGED <<variant, start_date, end_date, max_processes, pc,
                 dates_to_process, completed_dates, failed_dates,
                 ledger_errors, clear_warning, monitor_report, retry_result,
                 exit_code, ledger_vars, retry_vars,
                 worker_vars>>

\* Launch that counts a date whose launch failed as a failed date
Launch_failure_is_failed(ok) ==
  /\ pc = "launch"
  /\ launch_capacity(active_processes, max_processes, date_index,
                     Len(dates_to_process))
  /\ LET date == dates_to_process[date_index + 1]
     IN /\ date_index' = date_index + 1
        /\ launch_log' =
             Append(launch_log, [idx |-> date_index + 1, date |-> date])
        /\ IF ok
             THEN /\ active_processes' =
                       Append(active_processes,
                              NewHandle(active_processes, date))
                  /\ launch_errors' = launch_errors
                  /\ failed_dates' = failed_dates
             ELSE /\ active_processes' = active_processes
                  /\ launch_errors' = Append(launch_errors, date)
                  /\ failed_dates' = Append(failed_dates, date)
  /\ UNCHANGED <<variant, start_date, end_date, max_processes, pc,
                 dates_to_process, completed_dates,
                 ledger_errors, clear_warning, monitor_report, retry_result,
                 exit_code, ledger_vars, retry_vars, worker_vars>>

\* one iteration of the inner while loop: launch_subprocess(date).
\* ok = FALSE: open or Popen raises and launch_subprocess returns None.
Launch(ok) ==
  /\ pc = "launch"
  /\ launch_capacity(active_processes, max_processes, date_index,
                     Len(dates_to_process))
  /\ LET date == dates_to_process[date_index + 1]
     IN /\ date_index' = date_index + 1
        /\ launch_log' =
             Append(launch_log, [idx |-> date_index + 1, date |-> date])
        /\ IF ok
             THEN /\ active_processes' =
                       Append(active_processes,
                              NewHandle(active_processes, date))
                  /\ launch_errors' = launch_errors
             ELSE /\ active_processes' = active_processes
                  /\ launch_errors' = Append(launch_errors, date)
  /\ UNCHANGED <<variant, start_date, end_date, max_processes, pc,
                 dates_to_process, completed_dates, failed_dates,
                 ledger_errors, clear_warning,
                 monitor_report, retry_result, exit_code,
                 ledger_vars, retry_vars,
                 worker_vars>>

\* the inner while loop ends
LaunchDone ==
  /\ pc = "launch"
  /\ ~launch_capacity(active_processes, max_processes, date_index,
                      Len(dates_to_process))
  /\ pc' = "monitor"
  /\ UNCHANGED <<variant, start_date, end_date, max_processes,
                 dates_to_process, date_index, active_processes,
                 completed_dates, failed_dates, launch_log, launch_errors,
                 ledger_errors, clear_warning,
                 monitor_report, retry_result, exit_code,
                 ledger_vars, retry_vars,
                 worker_vars>>

\* log_process_stats in which NoSuchProcess is not caught: the lines up to
\* the first handle whose process has ended
log_process_stats_stops_at_ended(active, obs) ==
  LET k == IF \E i \in 1..Len(active) : active[i].exited
             THEN (CHOOSE i \in 1..Len(active) :
                     /\ active[i].exited
                     /\ \A j \in 1..(i - 1) : ~active[j].exited) - 1
             ELSE Len(active)
  IN  [i \in 1..k |->
         [pid |-> active[i].pid,
          date |-> active[i].date,
          status |-> "running"]]

\* log_process_stats: one line per handle of the active set, in its order.
\* obs[i] is what psutil gives for the handle at position i if its process
\* has ended.
log_process_stats(active, obs) ==
  [i \in 1..Len(active) |->
     [pid |-> active[i].pid,
      date |-> active[i].date,
      status |-> IF active[i].exited THEN obs[i] ELSE "running"]]

\* the counts of the "Progress:" line
progress_line(total_dates) ==
  [completed |-> Len(completed_dates),
   failed |-> Len(failed_dates),
   active |-> Len(active_processes),
   remaining |-> total_dates - Len(completed_dates) - Len(failed_dates)
                   - Len(active_processes)]

\* Monitor that answers a critical reading by halving the concurrency bound
Monitor_throttles(elapsed, percent_used, obs) ==
  /\ pc = "monitor"
  /\ monitor_report' =
       IF elapsed
         THEN <<[context |-> "Periodic check",
                 percent_used |-> percent_used,
                 alerts |-> log_memory_stats(percent_used),
                 processes |-> log_process_stats(active_processes, obs),
                 progress |-> progress_line(Len(dates_to_process))]>>
         ELSE <<>>
  /\ max_processes' =
       IF elapsed /\ percent_used > MEMORY_CRITICAL_THRESHOLD
         THEN (max_processes + 1) \div 2 ELSE max_processes
  /\ pc' = IF loop_condition(date_index, Len(dates_to_process),
                            active_processes)
             THEN "check" ELSE "drained"
  /\ UNCHANGED <<variant, start_date, end_date,
                 dates_to_process, date_index, active_processes,
                 completed_dates, failed_dates, launch_log, launch_errors,
                 ledger_errors, clear_warning, retry_result, exit_code,
                 ledger_vars, retry_vars,
                 worker_vars>>

\* the periodic monitoring block, time.sleep(1) and the loop test.
\* elapsed: MEMORY_CHECK_INTERVAL seconds have passed since the last report;
\* percent_used: the memory reading; obs: what psutil tells of ended children.
Monitor(elapsed, percent_used, obs) ==
  /\ pc = "monitor"
  /\ monitor_report' =
       IF elapsed
         THEN <<[context |-> "Periodic check",
                 percent_used |-> percent_used,
                 alerts |-> log_memory_stats(percent_used),
                 processes |-> log_process_stats(active_processes, obs),
                 progress |-> progress_line(Len(dates_to_process))]>>
         ELSE <<>>
  /\ pc' = IF loop_condition(date_index, Len(dates_to_process),
                            active_processes)
             THEN "check" ELSE "drained"
  /\ UNCHANGED <<variant, start_date, end_date, max_processes,
                 dates_to_process, date_index, active_processes,
                 completed_dates, failed_dates, launch_log, launch_errors,
                 ledger_errors, clear_warning, retry_result, exit_code,
                 ledger_vars, retry_vars,
                 worker_vars>>

\* a running worker of the main pass ends with status rc
WorkerExit(i, rc) ==
  /\ i \in 1..Len(active_processes)
  /\ ~active_processes[i].exited
  /\ active_processes' =
       [active_processes EXCEPT ![i] = [@ EXCEPT !.exited = TRUE,
                                                 !.returncode = rc]]
  /\ UNCHANGED <<variant, start_date, end_date, max_processes, pc,
                 dates_to_process, date_index, completed_dates, failed_dates,
                 launch_log, launch_errors, ledger_errors, clear_warning,
                 monitor_report,
                 retry_result, exit_code, ledger_vars, retry_vars,
                 worker_vars>>

(***************************************************************************)
(* After the loop: summary, automatic retry, return.                       *)
(***************************************************************************)
\* StartRetry that does not wait for the loop of the main pass to end
StartRetry_before_drain(outcome) ==
  /\ pc \in {"drained", "monitor"}
  /\ Len(failed_dates) > 0
  /\ IF outcome = "run"
       THEN pc' = "retry_wait" /\ r_pc' = "begin"
            /\ UNCHANGED <<retry_result, r_exit_code>>
     ELSE IF outcome = "noscript"
       THEN pc' = "retry_wait" /\ r_pc' = "exited" /\ r_exit_code' = 2
            /\ UNCHANGED retry_result
     ELSE pc' = "final" /\ retry_result' = "raised"
          /\ UNCHANGED <<r_pc, r_exit_code>>
  /\ monitor_report' = <<>>
  /\ UNCHANGED <<variant, start_date, end_date, max_processes,
                 dates_to_process, date_index, active_processes,
                 completed_dates, failed_dates, launch_log, launch_errors,
                 ledger_errors, clear_warning, exit_code, ledger_vars,
                 r_dates_to_process, r_date_index, r_active_processes,
                 r_completed_dates, r_failed_dates, remaining_failures,
                 ultimate_failure_file, ultimate_writes, r_monitor_report,
                 r_launch_log,
                 worker_vars>>

\* StartRetry that looks at the ledger file, not at failed_dates
StartRetry_on_ledger(outcome) ==
  /\ pc = "drained"
  /\ failed_jobs_file.kind = "dict"
  /\ Len(failed_jobs_file.map) > 0
  /\ IF outcome = "run"
       THEN pc' = "retry_wait" /\ r_pc' = "begin"
            /\ UNCHANGED <<retry_result, r_exit_code>>
     ELSE IF outcome = "noscript"
       THEN pc' = "retry_wait" /\ r_pc' = "exited" /\ r_exit_code' = 2
            /\ UNCHANGED retry_result
     ELSE pc' = "final" /\ retry_result' = "raised"
          /\ UNCHANGED <<r_pc, r_exit_code>>
  /\ monitor_report' = <<>>
  /\ UNCHANGED <<variant, start_date, end_date, max_processes,
                 dates_to_process, date_index, active_processes,
                 completed_dates, failed_dates, launch_log, launch_errors,
                 ledger_errors, clear_warning, exit_code, ledger_vars,
                 r_dates_to_process, r_date_index, r_active_processes,
                 r_completed_dates, r_failed_dates, remaining_failures,
                 ultimate_failure_file, ultimate_writes, r_monitor_report,
                 r_launch_log,
                 worker_vars>>

\* StartRetry that lets the exception of open or subprocess.run pass: the
\* driver ends with a traceback before its final report
StartRetry_raise_propagates(outcome) ==
  /\ pc = "drained"
  /\ Len(failed_dates) > 0
  /\ monitor_report' = <<>>
  /\ IF outcome = "run"
       THEN pc' = "retry_wait" /\ r_pc' = "begin"
            /\ UNCHANGED <<retry_result, r_exit_code, exit_code>>
     ELSE IF outcome = "noscript"
       THEN pc' = "retry_wait" /\ r_pc' = "exited" /\ r_exit_code' = 2
            /\ UNCHANGED <<retry_result, exit_code>>
     ELSE pc' = "done" /\ retry_result' = "raised" /\ exit_code' = 1
          /\ UNCHANGED <<r_pc, r_exit_code>>
  /\ UNCHANGED <<variant, start_date, end_date, max_processes,
                 dates_to_process, date_index, active_processes,
                 completed_dates, failed_dates, launch_log, launch_errors,
                 ledger_errors, clear_warning, ledger_vars,
                 r_dates_to_process, r_date_index, r_active_processes,
                 r_completed_dates, r_failed_dates, remaining_failures,
                 ultimate_failure_file, ultimate_writes, r_monitor_report,
                 r_launch_log, worker_vars>>

\* if self.failed_dates: subprocess.run(retry_cmd).  outcome "run": the
\* script starts; "noscript": the interpreter finds no script at the
\* relative path and ends with status 2; "raise": open or subprocess.run
\* raises and the driver logs FATAL.
StartRetry(outcome) ==
  /\ pc = "drained"
  /\ Len(failed_dates) > 0
  /\ IF outcome = "run"
       THEN pc' = "retry_wait" /\ r_pc' = "begin"
            /\ UNCHANGED <<retry_result, r_exit_code>>
     ELSE IF outcome = "noscript"
       THEN pc' = "retry_wait" /\ r_pc' = "exited" /\ r_exit_code' = 2
            /\ UNCHANGED retry_result
     ELSE pc' = "final" /\ retry_result' = "raised"
          /\ UNCHANGED <<r_pc, r_exit_code>>
  /\ monitor_report' = <<>>
  /\ UNCHANGED <<variant, start_date, end_date, max_processes,
                 dates_to_process, date_index, active_processes,
                 completed_dates, failed_dates, launch_log, launch_errors,
                 ledger_errors, clear_warning, exit_code, ledger_vars,
                 r_dates_to_process, r_date_index, r_active_processes,
                 r_completed_dates, r_failed_dates, remaining_failures,
                 ultimate_failure_file, ultimate_writes, r_monitor_report,
                 r_launch_log,
                 worker_vars>>

\* else: "No failures to retry."
NoRetry ==
  /\ pc = "drained"
  /\ Len(failed_dates) = 0
  /\ pc' = "final"
  /\ monitor_report' = <<>>
  /\ UNCHANGED <<variant, start_date, end_date, max_processes,
                 dates_to_process, date_index, active_processes,
                 completed_dates, failed_dates, launch_log, launch_errors,
                 ledger_errors, clear_warning, retry_result, exit_code,
                 ledger_vars, retry_vars,
                 worker_vars>>

\* subprocess.run returns: the retry script has ended
RetryReturned ==
  /\ pc = "retry_wait"
  /\ r_pc = "exited"
  /\ pc' = "final"
  /\ retry_result' = "finished"
  /\ UNCHANGED <<variant, start_date, end_date, max_processes,
                 dates_to_process, date_index, active_processes,
                 completed_dates, failed_dates, launch_log, launch_errors,
                 ledger_errors, clear_warning,
                 monitor_report, exit_code, ledger_vars,
                 retry_vars,
                 worker_vars>>

\* log_memory_stats("Final"), return len(self.failed_dates) == 0, and
\* sys.exit of __main__
Return(percent_used) ==
  /\ pc = "final"
  /\ pc' = "done"
  /\ monitor_report' = memory_report("Final", percent_used)
  /\ exit_code' = IF Len(failed_dates) = 0 THEN 0 ELSE 1
  /\ UNCHANGED <<variant, start_date, end_date, max_processes,
                 dates_to_process, date_index, active_processes,
                 completed_dates, failed_dates, launch_log, launch_errors,
                 ledger_errors, clear_warning, retry_result, ledger_vars,
                 retry_vars,
                 worker_vars>>

\* the counts of the final summary: "Completed successfully: c/total",
\* "Failed: f/total"
Summary ==
  [completed |-> Len(completed_dates),
   failed |-> Len(failed_dates),
   total |-> Len(dates_to_process)]

(***************************************************************************)
(* The retry script: retry_failed.py main().                               *)
(***************************************************************************)
RECURSIVE parse_keys(_)
\* the loop that fills dates_to_process from failed_jobs.keys(); a key
\* strptime rejects is skipped with a WARNING
parse_keys(m) ==
  IF Len(m) = 0 THEN <<>>
  ELSE strptime(m[1].key) \o parse_keys(Tail(m))

\* retry_capacity with the bound test off by one (<= for <)
retry_capacity_off_by_one(active, idx, total) ==
  Len(active) <= MAX_RETRY_PROCESSES /\ idx < total

\* while len(active_processes) < MAX_RETRY_PROCESSES and
\*       date_index < total_dates
retry_capacity(active, idx, total) ==
  Len(active) < MAX_RETRY_PROCESSES /\ idx < total

\* RetryLoad that takes a ledger it cannot read for an empty one
RetryLoad_unreadable_as_empty ==
  /\ r_pc = "begin"
  /\ IF failed_jobs_file.kind # "dict" \/ Len(failed_jobs_file.map) = 0
       THEN /\ ultimate_failure_file' = DictFile(EmptyMap)
            /\ ultimate_writes' = ultimate_writes + 1
            /\ r_pc' = "exited" /\ r_exit_code' = 0
            /\ UNCHANGED <<r_dates_to_process, remaining_failures>>
     ELSE LET dates == parse_keys(failed_jobs_file.map)
          IN /\ r_dates_to_process' = dates
             /\ remaining_failures' = failed_jobs_file.map
             /\ r_pc' = IF loop_condition(0, Len(dates), r_active_processes)
                          THEN "check" ELSE "finish"
             /\ UNCHANGED <<ultimate_failure_file, ultimate_writes,
                            r_exit_code>>
  /\ UNCHANGED <<driver_vars, ledger_vars, r_date_index, r_active_processes,
                 r_completed_dates, r_failed_dates, r_monitor_report,
                 r_launch_log,
                 worker_vars>>

\* main() up to the loop
RetryLoad ==
  /\ r_pc = "begin"
  /\ IF failed_jobs_file.kind = "absent"
       THEN /\ ultimate_failure_file' = DictFile(EmptyMap)
            /\ ultimate_writes' = ultimate_writes + 1
            /\ r_pc' = "exited" /\ r_exit_code' = 0
            /\ UNCHANGED <<r_dates_to_process, remaining_failures>>
     ELSE IF failed_jobs_file.kind \in {"corrupt", "undecodable"}
       THEN /\ r_pc' = "exited" /\ r_exit_code' = 1
            /\ UNCHANGED <<ultimate_failure_file, ultimate_writes,
                           r_dates_to_process, remaining_failures>>
     ELSE IF Len(failed_jobs_file.map) = 0
       THEN /\ ultimate_failure_file' = DictFile(EmptyMap)
            /\ ultimate_writes' = ultimate_writes + 1
            /\ r_pc' = "exited" /\ r_exit_code' = 0
            /\ UNCHANGED <<r_dates_to_process, remaining_failures>>
     ELSE LET dates == parse_keys(failed_jobs_file.map)
          IN /\ r_dates_to_process' = dates
             /\ remaining_failures' = failed_jobs_file.map
             /\ r_pc' = IF loop_condition(0, Len(dates), r_active_processes)
                          THEN "check" ELSE "finish"
             /\ UNCHANGED <<ultimate_failure_file, ultimate_writes,
                            r_exit_code>>
  /\ UNCHANGED <<driver_vars, ledger_vars, r_date_index, r_active_processes,
                 r_completed_dates, r_failed_dates, r_monitor_report,
                 r_launch_log,
                 worker_vars>>

\* retry_update that leaves the time of the attempt as it was
retry_update_keeps_last_attempt(rec, return_code, now) ==
  [rec EXCEPT !.error_message = [text |-> "Retry failed with exit code",
                                 code |-> return_code]]

\* retry_update that builds the record anew, as log_failure does
retry_update_rebuilds_record(rec, return_code, now) ==
  [date |-> rec.date,
   variables_to_retry |-> VARIABLE_AGG_MAP_keys,
   error_message |-> [text |-> "Retry failed with exit code",
                      code |-> return_code],
   last_attempt |-> now]

\* the record of a date that failed again
retry_update(rec, return_code, now) ==
  [rec EXCEPT !.error_message = [text |-> "Retry failed with exit code",
                                 code |-> return_code],
              !.last_attempt = now]

RECURSIVE retry_check_loop(_, _)
\* the for loop over list(active_processes.items()), from position i on
retry_check_loop(i, st) ==
  IF i > Len(st.items) THEN st
  ELSE LET h == st.items[i]
           date_str == strftime(h.date)
       IN IF ~h.exited THEN retry_check_loop(i + 1, st)
          ELSE IF h.returncode = 0
            THEN retry_check_loop(i + 1,
                   [st EXCEPT !.completed_pids = @ \cup {h.pid},
                              !.completed = Append(@, h.date),
                              !.remaining = IF Has(@, date_str)
                                              THEN Del(@, date_str) ELSE @])
          ELSE retry_check_loop(i + 1,
                   [st EXCEPT
                      !.completed_pids = @ \cup {h.pid},
                      !.failed = Append(@, h.date),
                      !.remaining =
                         IF Has(@, date_str)
                           THEN Put(@, date_str,
                                    retry_update(Get(@, date_str),
                                                 h.returncode, st.clock))
                           ELSE @,
                      !.clock = @ + 1])

\* the polling block of the loop body
RetryCheck ==
  /\ r_pc = "check"
  /\ LET st == retry_check_loop(1,
                 [items |-> r_active_processes,
                  completed_pids |-> {},
                  completed |-> r_completed_dates,
                  failed |-> r_failed_dates,
                  remaining |-> remaining_failures,
                  clock |-> clock])
     IN /\ r_active_processes' =
             remove_completed(r_active_processes, st.completed_pids)
        /\ r_completed_dates' = st.completed
        /\ r_failed_dates' = st.failed
        /\ remaining_failures' = st.remaining
        /\ clock' = st.clock
  /\ r_pc' = "launch"
  /\ r_monitor_report' = <<>>
  /\ UNCHANGED <<driver_vars, failed_jobs_file, failed_jobs_dir,
                 r_dates_to_process, r_date_index, ultimate_failure_file,
                 ultimate_writes,
                 r_launch_log, r_exit_code,
                 worker_vars>>

\* RetryLaunch that counts a worker it could not start as failed again
RetryLaunch_failure_is_failed(ok) ==
  /\ r_pc = "launch"
  /\ retry_capacity(r_active_processes, r_date_index,
                    Len(r_dates_to_process))
  /\ LET date == r_dates_to_process[r_date_index + 1]
     IN /\ r_date_index' = r_date_index + 1
        /\ r_launch_log' =
             Append(r_launch_log, [idx |-> r_date_index + 1, date |-> date])
        /\ r_active_processes' =
             IF ok THEN Append(r_active_processes,
                               NewHandle(r_active_processes, date))
                   ELSE r_active_processes
        /\ r_failed_dates' =
             IF ok THEN r_failed_dates ELSE Append(r_failed_dates, date)
  /\ UNCHANGED <<driver_vars, ledger_vars, r_pc, r_dates_to_process,
                 r_completed_dates, remaining_failures,
                 ultimate_failure_file, ultimate_writes, r_monitor_report,
                 r_exit_code,
                 worker_vars>>

\* one iteration of the launching while loop: launch_retry_subprocess
RetryLaunch(ok) ==
  /\ r_pc = "launch"
  /\ retry_capacity(r_active_processes, r_date_index,
                    Len(r_dates_to_process))
  /\ LET date == r_dates_to_process[r_date_index + 1]
     IN /\ r_date_index' = r_date_index + 1
        /\ r_launch_log' =
             Append(r_launch_log, [idx |-> r_date_index + 1, date |-> date])
        /\ r_active_processes' =
             IF ok THEN Append(r_active_processes,
                               NewHandle(r_active_processes, date))
                   ELSE r_active_processes
  /\ UNCHANGED <<driver_vars, ledger_vars, r_pc, r_dates_to_process,
                 r_completed_dates, r_failed_dates, remaining_failures,
                 ultimate_failure_file, ultimate_writes, r_monitor_report,
                 r_exit_code,
                 worker_vars>>

\* the launching while loop ends
RetryLaunchDone ==
  /\ r_pc = "launch"
  /\ ~retry_capacity(r_active_processes, r_date_index,
                     Len(r_dates_to_process))
  /\ r_pc' = "monitor"
  /\ UNCHANGED <<driver_vars, ledger_vars, r_dates_to_process, r_date_index,
                 r_active_processes, r_completed_dates, r_failed_dates,
                 remaining_failures, ultimate_failure_file, ultimate_writes,
                 r_monitor_report,
                 r_launch_log,
                 r_exit_code,
                 worker_vars>>

\* retry_failed.py log_memory_stats: the "Memory Stats" line only
retry_log_memory_stats(percent_used) == <<>>

\* the periodic monitoring block, time.sleep(1) and the loop test
RetryMonitor(elapsed, percent_used, obs) ==
  /\ r_pc = "monitor"
  /\ r_monitor_report' =
       IF elapsed
         THEN <<[context |-> "Periodic check",
                 percent_used |-> percent_used,
                 alerts |-> retry_log_memory_stats(percent_used),
                 processes |-> log_process_stats(r_active_processes, obs)]>>
         ELSE <<>>
  /\ r_pc' = IF loop_condition(r_date_index, Len(r_dates_to_process),
                              r_active_processes)
               THEN "check" ELSE "finish"
  /\ UNCHANGED <<driver_vars, ledger_vars, r_dates_to_process, r_date_index,
                 r_active_processes, r_completed_dates, r_failed_dates,
                 remaining_failures, ultimate_failure_file, ultimate_writes,
                 r_launch_log, r_exit_code,
                 worker_vars>>

\* RetryFinish that does not wait for the loop to end
RetryFinish_before_drain(ok) ==
  /\ r_pc \in {"finish", "monitor"}
  /\ ultimate_failure_file' =
       IF ok THEN DictFile(remaining_failures) ELSE ultimate_failure_file
  /\ ultimate_writes' = IF ok THEN ultimate_writes + 1 ELSE ultimate_writes
  /\ r_exit_code' = IF Len(r_failed_dates) > 0 THEN 1 ELSE 0
  /\ r_pc' = "exited"
  /\ r_monitor_report' = <<>>
  /\ UNCHANGED <<driver_vars, ledger_vars, r_dates_to_process, r_date_index,
                 r_active_processes, r_completed_dates, r_failed_dates,
                 remaining_failures, r_launch_log,
                 worker_vars>>

\* RetryFinish that also saves what remains into the working ledger
RetryFinish_saves_ledger(ok) ==
  /\ r_pc = "finish"
  /\ ultimate_failure_file' =
       IF ok THEN DictFile(remaining_failures) ELSE ultimate_failure_file
  /\ failed_jobs_file' =
       IF ok THEN DictFile(remaining_failures) ELSE failed_jobs_file
  /\ ultimate_writes' = IF ok THEN ultimate_writes + 1 ELSE ultimate_writes
  /\ r_exit_code' = IF Len(r_failed_dates) > 0 THEN 1 ELSE 0
  /\ r_pc' = "exited"
  /\ r_monitor_report' = <<>>
  /\ UNCHANGED <<driver_vars, failed_jobs_dir, clock, r_dates_to_process,
                 r_date_index, r_active_processes, r_completed_dates,
                 r_failed_dates, remaining_failures, r_launch_log,
                 worker_vars>>

\* after the loop: write ultimate_failures.json (ok = FALSE: the write
\* raises and an ERROR is logged) and return
RetryFinish(ok) ==
  /\ r_pc = "finish"
  /\ ultimate_failure_file' =
       IF ok THEN DictFile(remaining_failures) ELSE ultimate_failure_file
  /\ ultimate_writes' = IF ok THEN ultimate_writes + 1 ELSE ultimate_writes
  /\ r_exit_code' = IF Len(r_failed_dates) > 0 THEN 1 ELSE 0
  /\ r_pc' = "exited"
  /\ r_monitor_report' = <<>>
  /\ UNCHANGED <<driver_vars, ledger_vars, r_dates_to_process, r_date_index,
                 r_active_processes, r_completed_dates, r_failed_dates,
                 remaining_failures, r_launch_log,
                 worker_vars>>

\* a running worker of the retry pass ends with status rc
RetryWorkerExit(i, rc) ==
  /\ i \in 1..Len(r_active_processes)
  /\ ~r_active_processes[i].exited
  /\ r_active_processes' =
       [r_active_processes EXCEPT ![i] = [@ EXCEPT !.exited = TRUE,
                                                   !.returncode = rc]]
  /\ UNCHANGED <<driver_vars, ledger_vars, r_pc, r_dates_to_process,
                 r_date_index, r_completed_dates, r_failed_dates,
                 remaining_failures, ultimate_failure_file, ultimate_writes,
                 r_monitor_report,
                 r_launch_log,
                 r_exit_code,
                 worker_vars>>

(***************************************************************************)
(* Specifications.                                                         *)
(***************************************************************************)
\* The report variables are written by the monitoring blocks alone and read
\* by no action.  MonitorSpec below covers the iterations that report; the
\* other specifications take the iterations in which MEMORY_CHECK_INTERVAL
\* has not passed.
IdleMonitor == Monitor(FALSE, 0, <<>>)

IdleRetryMonitor == RetryMonitor(FALSE, 0, <<>>)

DriverStep ==
  \/ \E ok \in BOOLEAN, percent_used \in MemoryReadings :
       RunStart(ok, percent_used)
  \/ CheckCompleted
  \/ \E ok \in BOOLEAN : Launch(ok)
  \/ LaunchDone
  \/ IdleMonitor
  \/ \E outcome \in {"run", "noscript", "raise"} : StartRetry(outcome)
  \/ NoRetry
  \/ RetryReturned
  \/ \E percent_used \in MemoryReadings : Return(percent_used)

RetryStep ==
  \/ RetryLoad
  \/ RetryCheck
  \/ \E ok \in BOOLEAN : RetryLaunch(ok)
  \/ RetryLaunchDone
  \/ IdleRetryMonitor
  \/ \E ok \in BOOLEAN : RetryFinish(ok)

WorkerStep ==
  \/ \E i \in 1..MaxProcs, rc \in ExitCodes : WorkerExit(i, rc)
  \/ \E i \in 1..MAX_RETRY_PROCESSES, rc \in ExitCodes : RetryWorkerExit(i, rc)

Next == DriverStep \/ RetryStep \/ WorkerStep

Spec == Init /\ [][Next]_vars

\* The main pass with monitoring blocks that report: every memory reading
\* and every observation of an ended child.
SamplingMonitor ==
  \E elapsed \in BOOLEAN, percent_used \in MemoryReadings,
     obs \in [1..MaxProcs -> EndedObservations] :
    Monitor(elapsed, percent_used, obs)

MonitorNext ==
  \/ \E ok \in BOOLEAN, percent_used \in MemoryReadings :
       RunStart(ok, percent_used)
  \/ CheckCompleted
  \/ \E ok \in BOOLEAN : Launch(ok)
  \/ LaunchDone
  \/ SamplingMonitor
  \/ \E i \in 1..MaxProcs, rc \in ExitCodes : WorkerExit(i, rc)

MonitorSpec == Init /\ [][MonitorNext]_vars

\* The main pass alone: run() from its start to the end of the loop.
MainPassStep ==
  \/ \E ok \in BOOLEAN, percent_used \in MemoryReadings :
       RunStart(ok, percent_used)
  \/ CheckCompleted
  \/ \E ok \in BOOLEAN : Launch(ok)
  \/ LaunchDone
  \/ IdleMonitor

MainWorkerExit(i) == \E rc \in ExitCodes : WorkerExit(i, rc)

MainPassNext == MainPassStep \/ \E i \in 1..MaxProcs : MainWorkerExit(i)

MainPassSpec == Init /\ [][MainPassNext]_vars

\* The main pass with a coordinator that keeps running and workers that
\* all end: the assumption under which the pass is claimed to drain.
FairMainPassSpec ==
  /\ MainPassSpec
  /\ WF_vars(MainPassStep)
  /\ \A i \in 1..MaxProcs : WF_vars(MainWorkerExit(i))

\* The main pass in which the worker of the first date of the range hangs:
\* it never ends, every other worker ends, and the coordinator keeps
\* running.
HealthyWorkerExit(i) ==
  /\ i \in 1..Len(active_processes)
  /\ active_processes[i].date # start_date
  /\ \E rc \in ExitCodes : WorkerExit(i, rc)

HungNext == MainPassStep \/ \E i \in 1..MaxProcs : HealthyWorkerExit(i)

HungSpec ==
  /\ Init
  /\ [][HungNext]_vars
  /\ WF_vars(MainPassStep)
  /\ \A i \in 1..MaxProcs : WF_vars(HealthyWorkerExit(i))

\* The failure branch of check_completed_processes for one worker that
\* ended with a nonzero status: failed_dates.append(date) and
\* log_failure(date, return_code), for any date and status.
RecordFailure(date, return_code, ok) ==
  /\ Len(failed_dates) < MaxCalls
  /\ return_code # 0
  /\ LET st == check_loop(1,
                 [items |-> <<[pid |-> 1, date |-> date, exited |-> TRUE,
                              returncode |-> return_code]>>,
                  completed_pids |-> {},
                  completed |-> completed_dates,
                  failed |-> failed_dates,
                  file |-> failed_jobs_file,
                  dir |-> failed_jobs_dir,
                  errors |-> ledger_errors,
                  clock |-> clock],
                 <<ok>>)
     IN /\ failed_dates' = st.failed
        /\ failed_jobs_file' = st.file
        /\ failed_jobs_dir' = st.dir
        /\ ledger_errors' = st.errors
        /\ clock' = st.clock
  /\ UNCHANGED <<clear_warning, monitor_report, variant, start_date,
                 end_date, max_processes,
                 pc, dates_to_process, date_index, active_processes,
                 completed_dates, launch_log, launch_errors, retry_result,
                 exit_code, retry_vars,
                 worker_vars>>

\* the single-file-ledger driver, the ledger file as the clear at the
\* start of the run leaves it or as log_failure may find it
LedgerInit ==
  /\ Init
  /\ variant = "pipeline"
  /\ start_date = DateAt(0)
  /\ end_date = DateAt(MaxDates - 1)
  /\ max_processes = 1
  /\ failed_jobs_file \in
       {AbsentFile, CorruptFile, UndecodableFile, DictFile(EmptyMap)}

LedgerNext ==
  \E k \in 0..(MaxDates - 1), rc \in ExitCodes, ok \in BOOLEAN :
    RecordFailure(DateAt(k), rc, ok)

LedgerSpec == LedgerInit /\ [][LedgerNext]_vars

\* log_failure calls on a file system that accepts every write
WritableLedgerNext ==
  \E k \in 0..(MaxDates - 1), rc \in ExitCodes :
    RecordFailure(DateAt(k), rc, TRUE)

WritableLedgerSpec == LedgerInit /\ [][WritableLedgerNext]_vars

\* the dates of the configured range
LedgerDates == {DateAt(k) : k \in 0..(MaxDates - 1)}

\* the ledger check_completed_processes leaves after failures of the dates
\* of q, in the order in which they were observed
RecordedLedger(q) ==
  [i \in 1..Len(q) |->
     [key |-> strftime(q[i]), val |-> FailureRecord(strftime(q[i]), 1, 0)]]

\* what data/failed_jobs.json can hold when retry_failed.py starts
RetryLedgerFiles ==
  InitialLedgerFiles
    \cup {DictFile(RecordedLedger(q)) :
            q \in {f \in UNION {[1..n -> LedgerDates] : n \in 1..MaxDates} :
                     \A i, j \in DOMAIN f : i # j => f[i] # f[j]}}
    \cup {DictFile(<<[key |-> NonCanonicalKey(DateAt(1)),
                      val |-> StaleRecord(NonCanonicalKey(DateAt(1)))]>>
                    \o RecordedLedger(<<DateAt(1)>>))}

\* retry_failed.py started on its own (its __main__ block), no driver
\* running
RetryInit ==
  /\ variant = "pipeline"
  /\ start_date = DateAt(0)
  /\ end_date = DateAt(MaxDates - 1)
  /\ max_processes = 1
  /\ pc = "start"
  /\ dates_to_process = <<>>
  /\ date_index = 0
  /\ active_processes = <<>>
  /\ completed_dates = <<>>
  /\ failed_dates = <<>>
  /\ failed_jobs_file \in RetryLedgerFiles
  /\ failed_jobs_dir = EmptyMap
  /\ clock = 1
  /\ launch_log = <<>>
  /\ launch_errors = <<>>
  /\ ledger_errors = <<>>
  /\ clear_warning = FALSE
  /\ monitor_report = <<>>
  /\ retry_result = "none"
  /\ exit_code = -1
  /\ r_pc = "begin"
  /\ r_dates_to_process = <<>>
  /\ r_date_index = 0
  /\ r_active_processes = <<>>
  /\ r_completed_dates = <<>>
  /\ r_failed_dates = <<>>
  /\ remaining_failures = EmptyMap
  /\ ultimate_failure_file = AbsentFile
  /\ ultimate_writes = 0
  /\ r_monitor_report = <<>>
  /\ r_launch_log = <<>>
  /\ r_exit_code = -1
  /\ w_pc = "idle"
  /\ w_pid = 0
  /\ w_argv = <<>>
  /\ w_result = NoResult
  /\ w_exit_code = -1
  /\ w_cleanup_error = FALSE
  /\ daily_files = EmptyMap

RetryNext ==
  \/ RetryStep
  \/ \E i \in 1..MAX_RETRY_PROCESSES, rc \in ExitCodes :
       RetryWorkerExit(i, rc)

RetrySpec == RetryInit /\ [][RetryNext]_vars

\* The retry script with monitoring blocks that report.
SamplingRetryMonitor ==
  \E elapsed \in BOOLEAN, percent_used \in MemoryReadings,
     obs \in [1..MAX_RETRY_PROCESSES -> EndedObservations] :
    RetryMonitor(elapsed, percent_used, obs)

RetryMonitorNext ==
  \/ RetryLoad
  \/ RetryCheck
  \/ \E ok \in BOOLEAN : RetryLaunch(ok)
  \/ RetryLaunchDone
  \/ SamplingRetryMonitor
  \/ \E ok \in BOOLEAN : RetryFinish(ok)
  \/ \E i \in 1..MAX_RETRY_PROCESSES, rc \in ExitCodes :
       RetryWorkerExit(i, rc)

RetryMonitorSpec == RetryInit /\ [][RetryMonitorNext]_vars

(***************************************************************************)
(* The worker: single_download.py, __main__ block.  One worker is followed *)
(* through its own steps: the child of a handle of the main pass, or a     *)
(* worker started by hand.                                                 *)
(***************************************************************************)
\* the connection parameters src/driver.py passes after the date
asset_href == <<"h">>

storage_file == <<"s">>

kwargs_file == <<"k">>

\* launch_subprocess: cmd after the interpreter and the script path
worker_cmd(date) ==
  IF variant = "pipeline"
    THEN <<strftime(date)>>
    ELSE <<strftime(date), asset_href, storage_file, kwargs_file>>

\* the number of arguments the worker asks for: len(sys.argv) - 1
worker_argc == IF variant = "pipeline" THEN 1 ELSE 4

\* command lines a worker can be started with by hand
ManualArgvs ==
  { <<>>,
    <<UnparsableKey>>,
    <<strftime(DateAt(0))>>,
    <<UnparsableKey, asset_href, storage_file, kwargs_file>>,
    <<strftime(DateAt(0)), asset_href, storage_file, kwargs_file>> }

\* the key log_failure of src/single_download.py gets when the arguments
\* are wrong: "unknown_date_" followed by the time
UnknownDateKey == <<"u", "n", "k", "n", "o", "w", "n">>

\* the record log_failure of src/single_download.py builds
WorkerFailureRecord(date_str, text, now) ==
  [date |-> date_str,
   variables_to_retry |-> VARIABLE_AGG_MAP_keys,
   error_message |-> [text |-> text, code |-> 0],
   last_attempt |-> now]

\* src/single_download.py log_failure: writes failed_jobs/<date_str>.json;
\* ok = FALSE: makedirs or open raises, which the function reports itself
worker_log_failure(dir, date_str, text, now, ok) ==
  IF ~ok THEN dir
  ELSE Put(dir, date_str \o JsonSuffix,
           WorkerFailureRecord(date_str, text, now))

\* validate_daily_file on a file of the given content: the QC rules, and
\* FALSE when the file cannot be opened or read
validate_daily_file(content) == content = "good"

\* what the download function can meet: a provider error it handles, an
\* exception it lets pass, a failure while saving, a saved file
DownloadOutcomes == {"error", "raise", "save_failed", "saved"}

\* what a saved file can hold: values inside or outside the QC ranges
FileContents == {"good", "bad"}

\* the operating system starts the child of the handle at position i
WorkerBegin(i) ==
  /\ w_pc = "idle"
  /\ i \in 1..Len(active_processes)
  /\ ~active_processes[i].exited
  /\ w_pc' = "start"
  /\ w_pid' = active_processes[i].pid
  /\ w_argv' = worker_cmd(active_processes[i].date)
  /\ w_result' = NoResult
  /\ w_cleanup_error' = FALSE
  /\ UNCHANGED <<w_exit_code, daily_files, driver_vars, ledger_vars,
                 retry_vars>>

\* python single_download.py argv, typed by hand before a run of the driver
ManualBegin(argv) ==
  /\ w_pc = "idle"
  /\ pc = "start"
  /\ w_exit_code = -1
  /\ w_pc' = "start"
  /\ w_pid' = 0
  /\ w_argv' = argv
  /\ w_result' = NoResult
  /\ w_cleanup_error' = FALSE
  /\ UNCHANGED <<w_exit_code, daily_files, driver_vars, ledger_vars,
                 retry_vars>>

\* launch_retry_subprocess: cmd after the interpreter and the script path
retry_worker_cmd(date) == <<strftime(date)>>

\* the worker is the running child of a handle of the retry pass
RetryWorker ==
  \E i \in 1..Len(r_active_processes) :
    r_active_processes[i].pid = w_pid /\ ~r_active_processes[i].exited

\* the worker has not been killed
WorkerAlive ==
  \/ w_pid = 0
  \/ \E i \in 1..Len(active_processes) :
       active_processes[i].pid = w_pid /\ ~active_processes[i].exited
  \/ RetryWorker

\* __main__ up to the call of the download function: the argument count,
\* the date and, in src/single_download.py, the two parameter files
\* (cfg_ok = FALSE: they cannot be loaded).  ok: log_failure can write.
WorkerParse(cfg_ok, ok) ==
  /\ w_pc = "start"
  /\ WorkerAlive
  /\ LET bad_count == Len(w_argv) # worker_argc
         bad_date == ~bad_count /\ strptime(w_argv[1]) = <<>>
         bad_cfg == ~bad_count /\ ~bad_date /\ variant = "config" /\ ~cfg_ok
         failed == bad_count \/ bad_date \/ bad_cfg
         key == IF bad_count THEN UnknownDateKey ELSE w_argv[1]
         text == IF bad_count THEN "Invalid arguments"
                 ELSE IF bad_date THEN "Could not parse date"
                 ELSE "Could not load config files"
     IN /\ w_pc' = IF failed THEN "exit" ELSE "download"
        /\ w_exit_code' = IF failed THEN 1 ELSE w_exit_code
        /\ IF failed /\ variant = "config"
             THEN /\ failed_jobs_dir' =
                       worker_log_failure(failed_jobs_dir, key, text,
                                          clock, ok)
                  /\ clock' = clock + 1
             ELSE UNCHANGED <<failed_jobs_dir, clock>>
  /\ UNCHANGED <<w_pid, w_argv, w_result, w_cleanup_error, daily_files,
                 failed_jobs_file,
                 driver_vars, retry_vars>>

\* the name of the daily file of the date the worker was given
DailyFileOf(date_str) == strftime(strptime(date_str)[1])

\* run_download_and_validation up to the validation, download_single_day
\* as a whole.  content: what a saved file holds; partial: a failed save
\* left a file behind; ok: log_failure can write.
WorkerDownload(outcome, content, partial, ok) ==
  /\ w_pc = "download"
  /\ WorkerAlive
  /\ LET name == DailyFileOf(w_argv[1])
         text == IF outcome = "error" THEN "Failed to open dataset"
                 ELSE IF outcome = "raise"
                   THEN "An unhandled exception occurred"
                 ELSE "Failed to save final NetCDF file"
     IN /\ daily_files' =
             IF outcome = "saved" THEN Put(daily_files, name, content)
             ELSE IF outcome = "save_failed" /\ partial
               THEN Put(daily_files, name, "partial")
             ELSE daily_files
        /\ w_result' =
             IF outcome = "saved"
               THEN [daily_file |-> <<name>>, validation_passed |-> FALSE]
               ELSE NoResult
        /\ IF variant = "pipeline"
             THEN /\ w_pc' = IF outcome = "saved" THEN "validate"
                             ELSE "finish"
                  /\ UNCHANGED <<failed_jobs_dir, clock, w_exit_code>>
             ELSE /\ w_pc' = IF outcome = "raise" THEN "exit" ELSE "finish"
                  /\ w_exit_code' = IF outcome = "raise" THEN 1
                                    ELSE w_exit_code
                  /\ IF outcome = "saved"
                       THEN UNCHANGED <<failed_jobs_dir, clock>>
                       ELSE /\ failed_jobs_dir' =
                                 worker_log_failure(failed_jobs_dir,
                                                    w_argv[1], text, clock,
                                                    ok)
                            /\ clock' = clock + 1
  /\ UNCHANGED <<w_pid, w_argv, w_cleanup_error, failed_jobs_file,
                 driver_vars, retry_vars>>

\* validation_passed = validate_daily_file(daily_file), pipeline worker
WorkerValidate ==
  /\ w_pc = "validate"
  /\ WorkerAlive
  /\ w_result' =
       [w_result EXCEPT !.validation_passed =
          validate_daily_file(Get(daily_files, w_result.daily_file[1]))]
  /\ w_pc' = "finish"
  /\ UNCHANGED <<w_pid, w_argv, w_exit_code, w_cleanup_error, daily_files,
                 driver_vars, ledger_vars, retry_vars>>

\* WorkerFinish that leaves a file that failed validation where it is
WorkerFinish_keeps_invalid_file(remove_ok) ==
  /\ w_pc = "finish"
  /\ WorkerAlive
  /\ IF variant = "pipeline"
       THEN w_exit_code' =
              IF w_result.daily_file # <<>> /\ w_result.validation_passed
                THEN 0 ELSE 1
       ELSE w_exit_code' = IF w_result.daily_file # <<>> THEN 0 ELSE 1
  /\ w_pc' = "exit"
  /\ UNCHANGED <<w_pid, w_argv, w_result, w_cleanup_error, daily_files,
                 driver_vars, ledger_vars, retry_vars>>

\* the end of __main__.  pipeline worker: the finally block, which removes
\* a file that failed validation (remove_ok = FALSE: os.remove raises and
\* an ERROR is printed).  src/single_download.py: if result: sys.exit(0).
WorkerFinish(remove_ok) ==
  /\ w_pc = "finish"
  /\ WorkerAlive
  /\ IF variant = "pipeline"
       THEN IF w_result.daily_file # <<>> /\ w_result.validation_passed
              THEN /\ w_exit_code' = 0
                   /\ UNCHANGED <<daily_files, w_cleanup_error>>
            ELSE IF w_result.daily_file # <<>>
              THEN /\ w_exit_code' = 1
                   /\ daily_files' =
                        IF remove_ok
                          THEN Del(daily_files, w_result.daily_file[1])
                          ELSE daily_files
                   /\ w_cleanup_error' = ~remove_ok
            ELSE /\ w_exit_code' = 1
                 /\ UNCHANGED <<daily_files, w_cleanup_error>>
       ELSE /\ w_exit_code' = IF w_result.daily_file # <<>> THEN 0 ELSE 1
            /\ UNCHANGED <<daily_files, w_cleanup_error>>
  /\ w_pc' = "exit"
  /\ UNCHANGED <<w_pid, w_argv, w_result, driver_vars, ledger_vars,
                 retry_vars>>

\* sys.exit: the process ends and its handle, if it has one, can be polled
WorkerEnd ==
  /\ w_pc = "exit"
  /\ WorkerAlive
  /\ ~RetryWorker
  /\ w_pc' = "idle"
  /\ active_processes' =
       [i \in 1..Len(active_processes) |->
          IF active_processes[i].pid = w_pid
            THEN [active_processes[i] EXCEPT !.exited = TRUE,
                                             !.returncode = w_exit_code]
            ELSE active_processes[i]]
  /\ UNCHANGED <<variant, start_date, end_date, max_processes, pc,
                 dates_to_process, date_index, completed_dates, failed_dates,
                 launch_log, launch_errors, ledger_errors, clear_warning,
                 monitor_report, retry_result, exit_code, ledger_vars,
                 retry_vars, w_pid, w_argv, w_result, w_exit_code,
                 w_cleanup_error, daily_files>>

\* the operating system starts the child of the handle at position i of
\* the retry pass; the main pass has ended by then
RetryWorkerBegin(i) ==
  /\ w_pc = "idle"
  /\ active_processes = <<>>
  /\ i \in 1..Len(r_active_processes)
  /\ ~r_active_processes[i].exited
  /\ w_pc' = "start"
  /\ w_pid' = r_active_processes[i].pid
  /\ w_argv' = retry_worker_cmd(r_active_processes[i].date)
  /\ w_result' = NoResult
  /\ w_cleanup_error' = FALSE
  /\ UNCHANGED <<w_exit_code, daily_files, driver_vars, ledger_vars,
                 retry_vars>>

\* sys.exit in a worker of the retry pass
RetryWorkerEnd ==
  /\ w_pc = "exit"
  /\ RetryWorker
  /\ w_pc' = "idle"
  /\ r_active_processes' =
       [i \in 1..Len(r_active_processes) |->
          IF r_active_processes[i].pid = w_pid
            THEN [r_active_processes[i] EXCEPT !.exited = TRUE,
                                               !.returncode = w_exit_code]
            ELSE r_active_processes[i]]
  /\ UNCHANGED <<driver_vars, ledger_vars, r_pc, r_dates_to_process,
                 r_date_index, r_completed_dates, r_failed_dates,
                 remaining_failures, ultimate_failure_file, ultimate_writes,
                 r_monitor_report, r_launch_log, r_exit_code, w_pid, w_argv,
                 w_result, w_exit_code, w_cleanup_error, daily_files>>

\* the worker is killed by a signal (SIGKILL) wherever it stands
WorkerKilled(i) ==
  /\ w_pc \notin {"idle"}
  /\ i \in 1..Len(active_processes)
  /\ active_processes[i].pid = w_pid
  /\ ~active_processes[i].exited
  /\ w_pc' = "idle"
  /\ active_processes' =
       [active_processes EXCEPT ![i] = [@ EXCEPT !.exited = TRUE,
                                                 !.returncode = -9]]
  /\ UNCHANGED <<variant, start_date, end_date, max_processes, pc,
                 dates_to_process, date_index, completed_dates, failed_dates,
                 launch_log, launch_errors, ledger_errors, clear_warning,
                 monitor_report, retry_result, exit_code, ledger_vars,
                 retry_vars, w_pid, w_argv, w_result, w_exit_code,
                 w_cleanup_error, daily_files>>

\* one worker at a time (max_processes = 1), each followed through its own
\* code, under the main pass of either driver over one or two dates
WorkerInit ==
  /\ Init
  /\ start_date = DateAt(0)
  /\ end_date \in {DateAt(0), DateAt(1)}
  /\ max_processes = 1
  /\ failed_jobs_file = DictFile(EmptyMap)

WorkerOwnStep ==
  \/ \E cfg_ok, ok \in BOOLEAN : WorkerParse(cfg_ok, ok)
  \/ \E outcome \in DownloadOutcomes, content \in FileContents,
        partial, ok \in BOOLEAN :
       WorkerDownload(outcome, content, partial, ok)
  \/ WorkerValidate
  \/ \E remove_ok \in BOOLEAN : WorkerFinish(remove_ok)

WorkerNext ==
  \/ \E ok \in BOOLEAN, percent_used \in MemoryReadings :
       RunStart(ok, percent_used)
  \/ CheckCompleted
  \/ \E ok \in BOOLEAN : Launch(ok)
  \/ LaunchDone
  \/ IdleMonitor
  \/ \E argv \in ManualArgvs : ManualBegin(argv)
  \/ WorkerBegin(1)
  \/ WorkerOwnStep
  \/ WorkerEnd
  \/ WorkerKilled(1)

WorkerSpec == WorkerInit /\ [][WorkerNext]_vars

\* A whole run over one date with one worker slot, main pass and retry pass,
\* every worker followed through its own code.
RunWorkerInit ==
  /\ Init
  /\ start_date = DateAt(0)
  /\ end_date = DateAt(0)
  /\ max_processes = 1

RunWorkerNext ==
  \/ \E ok \in BOOLEAN, percent_used \in MemoryReadings :
       RunStart(ok, percent_used)
  \/ CheckCompleted
  \/ \E ok \in BOOLEAN : Launch(ok)
  \/ LaunchDone
  \/ IdleMonitor
  \/ \E outcome \in {"run", "noscript", "raise"} : StartRetry(outcome)
  \/ NoRetry
  \/ RetryReturned
  \/ \E percent_used \in MemoryReadings : Return(percent_used)
  \/ RetryStep
  \/ WorkerBegin(1)
  \/ \E i \in 1..MAX_RETRY_PROCESSES : RetryWorkerBegin(i)
  \/ WorkerOwnStep
  \/ WorkerEnd
  \/ RetryWorkerEnd

RunWorkerSpec == RunWorkerInit /\ [][RunWorkerNext]_vars

(***************************************************************************)
(* Properties.                                                             *)
(***************************************************************************)
DatesOf(handles) == [i \in 1..Len(handles) |-> handles[i].date]

NoDuplicates(seq) == \A i, j \in 1..Len(seq) : seq[i] = seq[j] => i = j

\* C1: main pass concurrency bound: in every state of run() the number of
\* handles in active_processes is at most max_processes.
C1_MainConcurrencyBound == Len(active_processes) <= max_processes

\* the pool is full while dates are still waiting to be launched
C1_Witness ==
  /\ pc = "monitor"
  /\ Len(active_processes) = max_processes
  /\ date_index < Len(dates_to_process)

\* C2: retry pass concurrency bound: the number of active retry workers is
\* at most MAX_RETRY_PROCESSES, whatever max_processes is and however many
\* dates the ledger holds.
C2_RetryConcurrencyBound == Len(r_active_processes) <= MAX_RETRY_PROCESSES

\* the retry pool is full, a third ledger date waits, and the main pass ran
\* with another bound
C2_Witness ==
  /\ r_pc = "monitor"
  /\ Len(r_active_processes) = MAX_RETRY_PROCESSES
  /\ r_date_index < Len(r_dates_to_process)
  /\ max_processes # MAX_RETRY_PROCESSES

C4_LaunchOrder ==
  \A k \in 1..Len(launch_log) :
    /\ launch_log[k].idx = k
    /\ launch_log[k].date = dates_to_process[k]

\* the second date completed while the first one is still running
C4_Witness ==
  /\ Len(launch_log) >= 2
  /\ Len(completed_dates) >= 1
  /\ completed_dates[1] = dates_to_process[2]
  /\ \E i \in 1..Len(active_processes) :
       active_processes[i].date = dates_to_process[1]

\* the dates of the handles of a pool whose process ended with a status
\* that satisfies zero (TRUE: status 0, FALSE: any other status)
EndedDates(handles, zero) ==
  DatesOf(SelectSeq(handles,
            LAMBDA h : h.exited /\ ((h.returncode = 0) <=> zero)))

StillRunning(handles) == SelectSeq(handles, LAMBDA h : ~h.exited)

\* a step of a pass gives every handle whose exit it observes one outcome:
\* the date is appended to completed iff the status is 0, to failed iff it
\* is not, and the handle leaves the pool; no other step appends anything
OneOutcomeStep(active, active_n, completed, completed_n, failed, failed_n,
               polls) ==
  IF polls
    THEN /\ completed_n = completed \o EndedDates(active, TRUE)
         /\ failed_n = failed \o EndedDates(active, FALSE)
         /\ active_n = StillRunning(active)
    ELSE completed_n = completed /\ failed_n = failed

\* C5: exactly one outcome (safety): every successfully launched date is
\* appended to at most one of completed_dates / failed_dates and at most
\* once, to completed_dates iff the observed exit status is 0 and to
\* failed_dates iff it is nonzero; in the main pass and in the retry pass.
C5_ExactlyOneOutcome ==
  /\ [][/\ OneOutcomeStep(active_processes, active_processes',
                          completed_dates, completed_dates',
                          failed_dates, failed_dates',
                          pc = "check" /\ pc' = "launch")
        /\ OneOutcomeStep(r_active_processes, r_active_processes',
                          r_completed_dates, r_completed_dates',
                          r_failed_dates, r_failed_dates',
                          r_pc = "check" /\ r_pc' = "launch")]_vars
  /\ [](/\ NoDuplicates(completed_dates \o failed_dates)
        /\ \A i \in 1..(Len(completed_dates) + Len(failed_dates)) :
             /\ (completed_dates \o failed_dates)[i] \in
                  {launch_log[k].date : k \in 1..Len(launch_log)}
             /\ (completed_dates \o failed_dates)[i] \notin
                  {launch_errors[k] : k \in 1..Len(launch_errors)})

\* both passes have classified a worker that ended with 0 and a worker that
\* was killed by a signal
C5_Witness ==
  /\ Len(completed_dates) >= 1
  /\ Len(r_completed_dates) >= 1
  /\ Len(r_failed_dates) >= 1
  /\ \E i \in 1..Len(failed_jobs_file.map) :
       failed_jobs_file.map[i].val.error_message.code = -9
  /\ \E i \in 1..Len(remaining_failures) :
       remaining_failures[i].val.error_message.code = -9

Range(seq) == {seq[i] : i \in 1..Len(seq)}

Count(seq, x) == Cardinality({i \in 1..Len(seq) : seq[i] = x})

\* the dates the main pass launched a worker for
LaunchedDates ==
  {launch_log[k].date : k \in 1..Len(launch_log)} \ Range(launch_errors)

\* the loop of the main pass has ended as claimed
MainPassDrained ==
  /\ pc = "drained"
  /\ date_index = Len(dates_to_process)
  /\ active_processes = <<>>
  /\ Range(completed_dates) \cup Range(failed_dates) = LaunchedDates

\* C6: pass termination: if every launched worker eventually exits, the
\* main pass eventually leaves its loop with date_index equal to the number
\* of dates and an empty active set, and every successfully launched date
\* then has an outcome recorded.
C6_MainPassTerminates ==
  [](pc \in {"check", "launch", "monitor"} => <>MainPassDrained)

\* a pass of three dates has drained with an outcome for each of them
C6_Witness ==
  /\ MainPassDrained
  /\ Len(completed_dates) + Len(failed_dates) = 3
  /\ Len(failed_dates) >= 1

\* C7: completeness: when the main pass ends every submitted date is
\* counted by the coordinator: the counts it keeps and reports (completed
\* and failed) add up to the number of submitted dates, a date dropped by a
\* launch error being counted too.
C7_EverySubmittedDateCounted ==
  pc = "drained" =>
    Summary.completed + Summary.failed = Summary.total

\* s is the YYYY-MM-DD string of date: four, two and two digits
CanonicalKey(s, date) ==
  /\ Len(s) = 10
  /\ s[5] = "-" /\ s[8] = "-"
  /\ AllDigits(SubSeq(s, 1, 4)) /\ ParseNat(SubSeq(s, 1, 4)) = date.y
  /\ AllDigits(SubSeq(s, 6, 7)) /\ ParseNat(SubSeq(s, 6, 7)) = date.m
  /\ AllDigits(SubSeq(s, 9, 10)) /\ ParseNat(SubSeq(s, 9, 10)) = date.d

\* the ledger file holds the record of the failure of handle h
RecordedIn(file, h) ==
  /\ file.kind = "dict"
  /\ \E i \in 1..Len(file.map) :
       /\ CanonicalKey(file.map[i].key, h.date)
       /\ file.map[i].val.date = file.map[i].key
       /\ file.map[i].val.variables_to_retry = VARIABLE_AGG_MAP_keys
       /\ file.map[i].val.error_message.code = h.returncode

\* the poll step of the single-file-ledger driver
MainPollStep == variant = "pipeline" /\ pc = "check" /\ pc' = "launch"

LedgerMap(file) == IF file.kind = "dict" THEN file.map ELSE EmptyMap

KeyList(m) == [i \in 1..Len(m) |-> m[i].key]

\* one recordFailure call: the new record of the date replaces the old one
\* or is added, and every other record stays as it was
RecordFailureStep ==
  LET date == failed_dates'[Len(failed_dates')]
      old == LedgerMap(failed_jobs_file)
      new == LedgerMap(failed_jobs_file')
  IN failed_dates' # failed_dates =>
       IF ledger_errors' = ledger_errors
         THEN /\ failed_jobs_file'.kind = "dict"
              /\ \E k \in Keys(new) :
                   /\ CanonicalKey(k, date)
                   /\ Keys(new) = Keys(old) \cup {k}
                   /\ \E rc \in ExitCodes \ {0} :
                        Get(new, k) = FailureRecord(k, rc, clock)
                   /\ \A k2 \in Keys(old) \ {k} :
                        Get(new, k2) = Get(old, k2)
         ELSE failed_jobs_file' = failed_jobs_file

\* the ledger holds one record for each date recorded, and no other
OneRecordPerDate ==
  LET m == LedgerMap(failed_jobs_file)
  IN /\ NoDuplicates(KeyList(m))
     /\ \A i \in 1..Len(m) :
          \E d \in Range(failed_dates) : CanonicalKey(m[i].key, d)
     /\ \A d \in Range(failed_dates) :
          Count(failed_dates, d) > Count(ledger_errors, d) =>
            Cardinality({i \in 1..Len(m) : CanonicalKey(m[i].key, d)}) = 1

C10_FreshRunClear ==
  ~clear_warning =>
    /\ (pc \in {"check", "launch", "monitor"} /\ launch_log = <<>>)
         => LedgerMap(failed_jobs_file) = EmptyMap
    /\ \A i \in 1..Len(remaining_failures) :
         remaining_failures[i].val.last_attempt >= 1

\* the ledger file cannot be parsed
Unparsable(file) == file.kind \in {"corrupt", "undecodable"}

\* C11: corrupt ledger on write: when recordFailure finds a ledger file
\* whose content cannot be parsed, it treats the ledger as empty and writes
\* back a ledger that contains exactly the new record (the call returning
\* to its caller is the step itself).
C11_CorruptLedgerOverwritten ==
  [][(failed_dates' # failed_dates /\ Unparsable(failed_jobs_file)) =>
       /\ failed_jobs_file'.kind = "dict"
       /\ Len(failed_jobs_file'.map) = 1
       /\ CanonicalKey(failed_jobs_file'.map[1].key,
                       failed_dates'[Len(failed_dates')])
       /\ \E rc \in ExitCodes \ {0} :
            failed_jobs_file'.map[1].val =
              FailureRecord(failed_jobs_file'.map[1].key, rc, clock)]_vars

WellFormedLedger(file) ==
  /\ file.kind = "dict"
  /\ \A i \in 1..Len(file.map) :
       \E d \in LedgerDates : CanonicalKey(file.map[i].key, d)

\* the date a canonical key stands for
DateOfKey(k) ==
  CHOOSE d \in LedgerDates : CanonicalKey(k, d)

\* C13: retry convergence: for any ledger and any assignment of retry
\* outcomes, the terminal failure set written by the retry pass has as keys
\* exactly the ledger dates whose retry worker did not succeed: a date
\* whose retry succeeded is absent, and a date whose retry failed is
\* present with a last_attempt later than the one it had in the ledger.
C13_RetryConvergence ==
  (r_pc = "exited" /\ ultimate_writes = 1
     /\ WellFormedLedger(failed_jobs_file))
    => LET ledger == failed_jobs_file.map
           terminal == ultimate_failure_file.map
       IN /\ ultimate_failure_file.kind = "dict"
          /\ Keys(terminal) =
               {k \in Keys(ledger) :
                  DateOfKey(k) \notin Range(r_completed_dates)}
          /\ \A k \in Keys(ledger) :
               DateOfKey(k) \in Range(r_failed_dates) =>
                 /\ k \in Keys(terminal)
                 /\ Get(terminal, k).last_attempt
                      > Get(ledger, k).last_attempt

\* of a ledger of two dates the first was retried with success and the
\* second failed again: the terminal file holds the second alone
C13_Witness ==
  /\ r_pc = "exited"
  /\ ultimate_writes = 1
  /\ failed_jobs_file = DictFile(RecordedLedger(<<DateAt(0), DateAt(1)>>))
  /\ r_completed_dates = <<DateAt(0)>>
  /\ r_failed_dates = <<DateAt(1)>>
  /\ Keys(ultimate_failure_file.map) = {strftime(DateAt(1))}
  /\ ultimate_failure_file.map[1].val.last_attempt > 0

\* the poll step of the retry pass
RetryPollStep == r_pc = "check" /\ r_pc' = "launch"

\* the dates of the retry workers the poll step finds ended with a status
\* in codes
RetryEnded(codes) ==
  {r_active_processes[i].date :
     i \in {j \in 1..Len(r_active_processes) :
              /\ r_active_processes[j].exited
              /\ r_active_processes[j].returncode \in codes}}

\* what one poll step does to the in-memory copy of the ledger
RetryOutcomeFrame ==
  LET old == remaining_failures
      new == remaining_failures'
      succeeded == RetryEnded({0})
      failed == RetryEnded(ExitCodes \ {0})
      touched == {strftime(d) : d \in succeeded \cup failed}
  IN /\ Keys(new) \subseteq Keys(old)
     /\ \A d \in succeeded : ~Has(new, strftime(d))
     /\ \A d \in failed \ succeeded :
          Has(old, strftime(d)) =>
            /\ Has(new, strftime(d))
            /\ LET a == Get(old, strftime(d))
                   b == Get(new, strftime(d))
               IN /\ DOMAIN b = DOMAIN a
                  /\ b.date = a.date
                  /\ b.variables_to_retry = a.variables_to_retry
                  /\ b.error_message.text = "Retry failed with exit code"
                  /\ \E i \in 1..Len(r_active_processes) :
                       /\ r_active_processes[i].date = d
                       /\ r_active_processes[i].exited
                       /\ b.error_message.code
                            = r_active_processes[i].returncode
                  /\ b.last_attempt > a.last_attempt
     /\ \A k \in Keys(old) \ touched :
          Has(new, k) /\ Get(new, k) = Get(old, k)

\* C14: retry outcome handling: on a retry success the date's record is
\* removed from the in-memory copy of the ledger; on a retry failure only
\* the error_message and last_attempt fields of the date's record change,
\* its date and variables_to_retry fields and the records of all other
\* dates staying as they were; no other step of the pass changes the copy.
C14_RetryOutcomeFrame ==
  [][/\ RetryPollStep => RetryOutcomeFrame
     /\ (~RetryPollStep /\ r_pc # "begin") =>
          remaining_failures' = remaining_failures]_vars

\* of three recorded dates the first was retried with success, the second
\* was killed by a signal and the third has not ended
C14_Witness ==
  /\ r_pc = "launch"
  /\ failed_jobs_file =
       DictFile(RecordedLedger(<<DateAt(0), DateAt(1), DateAt(2)>>))
  /\ r_completed_dates = <<DateAt(0)>>
  /\ r_failed_dates = <<DateAt(1)>>
  /\ Keys(remaining_failures) = {strftime(DateAt(1)), strftime(DateAt(2))}
  /\ Get(remaining_failures, strftime(DateAt(1))).error_message.code = -9
  /\ Get(remaining_failures, strftime(DateAt(2)))
       = Get(failed_jobs_file.map, strftime(DateAt(2)))

\* the retry pass has drained: every date of its input was taken and no
\* worker is active
RetryDrained ==
  /\ r_date_index = Len(r_dates_to_process)
  /\ Len(r_launch_log) = Len(r_dates_to_process)
  /\ r_active_processes = <<>>

C16_RetryExitStatus ==
  (r_pc = "exited" /\ ultimate_writes = 1
     /\ (failed_jobs_file.kind = "absent"
           \/ WellFormedLedger(failed_jobs_file)))
    => /\ r_exit_code \in {0, 1}
       /\ r_exit_code = 1 <=> Len(ultimate_failure_file.map) > 0

\* the dates that failed in the main pass and were not retried with success
RemainFailed == Range(failed_dates) \ Range(r_completed_dates)

\* C17: driver exit code: the driver exits with 0 if and only if, after the
\* main pass and the retry pass have both finished, no date remains failed;
\* a run whose main-pass failures were all resolved by the retry pass exits
\* with 0.
C17_DriverExitCode ==
  (variant = "pipeline" /\ pc = "done") =>
    (exit_code = 0 <=> RemainFailed = {})

\* a worker of the list has not ended
Running(handles) == \E i \in 1..Len(handles) : ~handles[i].exited

\* C18: pass sequencing: the retry pass is started only after the main
\* pass has drained (all dates consumed, active set empty), the driver
\* blocks until the retry step ends, and at no instant are a main-pass
\* worker and a retry-pass worker running at the same time.
C18_PassSequencing ==
  /\ r_pc # "idle" =>
       /\ pc \in {"retry_wait", "final", "done"}
       /\ date_index = Len(dates_to_process)
       /\ active_processes = <<>>
  /\ r_pc \notin {"idle", "exited"} => pc = "retry_wait"
  /\ pc \in {"final", "done"} =>
       r_pc \in {"idle", "exited"} /\ r_active_processes = <<>>
  /\ ~(Running(active_processes) /\ Running(r_active_processes))

\* a retry worker runs while the driver waits for the retry script, after
\* a main pass of three dates
C18_Witness ==
  /\ pc = "retry_wait"
  /\ Running(r_active_processes)
  /\ Len(launch_log) = 3
  /\ Len(completed_dates) >= 1

\* the driver has tried to start the retry script
RetryAttempted == r_pc # "idle" \/ retry_result = "raised"

\* the driver is past its decision on the retry
AfterMainPass == pc \in {"retry_wait", "final", "done"}

\* C19 as claimed: after the main pass completes, the retry pass is
\* started if and only if the failure ledger is non-empty; with an empty
\* ledger the driver goes straight to its end (here for the runs that
\* cleared the ledger at their start).
C19_RetryIffLedgerNonEmpty ==
  (variant = "pipeline" /\ ~clear_warning /\ AfterMainPass) =>
    (RetryAttempted <=> LedgerMap(failed_jobs_file) # EmptyMap)

\* C19 amended: after the main pass completes, the driver tries to start
\* the retry step if and only if a worker of the main pass ended with a
\* nonzero status (failed_dates is non-empty), whatever the ledger file
\* holds; otherwise it goes straight to its end; before the main pass has
\* completed the retry step is not started.
C19_RetryIffFailedDates ==
  /\ AfterMainPass => (RetryAttempted <=> Len(failed_dates) > 0)
  /\ ~AfterMainPass => ~RetryAttempted

\* the retry script was started on an empty ledger: the failure of the
\* main pass could not be written
C19_Witness ==
  /\ variant = "pipeline"
  /\ pc = "retry_wait"
  /\ r_pc = "begin"
  /\ Len(failed_dates) = 1
  /\ Len(completed_dates) = 2
  /\ failed_jobs_file = DictFile(EmptyMap)

\* the dates the retry pass took from its input to launch a worker
RetryLaunchedDates == {r_launch_log[k].date : k \in 1..Len(r_launch_log)}

\* the retry script has run to its end and the driver has ended
RunEnded == pc = "done" /\ r_pc = "exited" /\ r_exit_code \in {0, 1}

\* no write of the ledger, no launch of a retry worker and no write of the
\* terminal file has raised in this run
NoReportedFault ==
  /\ ~clear_warning
  /\ ledger_errors = <<>>
  /\ Len(r_launch_log) = Len(r_completed_dates) + Len(r_failed_dates)
  /\ ultimate_writes = 1

\* the retry pass has retried the failures of the main pass and no other
\* date, and the terminal file holds those that failed again
RetryScope ==
  /\ RetryLaunchedDates = Range(failed_dates)
  /\ RetryLaunchedDates \cap Range(completed_dates) = {}
  /\ ultimate_failure_file.kind = "dict"
  /\ Range(parse_keys(ultimate_failure_file.map))
       = Range(failed_dates) \cap Range(r_failed_dates)

\* C20: retry scope in an end-to-end run: the retry pass launches a worker
\* for exactly the dates that failed in the main pass and for no date that
\* succeeded on the first pass, and the terminal file holds exactly the
\* dates that failed in the main pass and failed again in the retry pass
\* (here for the runs in which no write and no retry launch raised).
C20_RetryScope == (RunEnded /\ NoReportedFault) => RetryScope

(***************************************************************************)
(* C21.  Empty input.                                                      *)
(***************************************************************************)
\* start_date is after end_date
EmptyRange == ~DateLE(start_date, end_date)

\* the ledger file the retry script found holds no record
EmptyLedger ==
  failed_jobs_file.kind \in {"absent", "dict"}
    /\ LedgerMap(failed_jobs_file) = EmptyMap

\* a pass that was given no date launches nothing and is never in its loop
ZeroDatesNoLoop ==
  /\ (pc # "start" /\ dates_to_process = <<>>) =>
       /\ launch_log = <<>>
       /\ pc \notin {"check", "launch", "monitor"}
  /\ (r_pc \notin {"idle", "begin"} /\ r_dates_to_process = <<>>) =>
       /\ r_launch_log = <<>>
       /\ r_pc \notin {"check", "launch", "monitor"}

\* the retry script that found an empty ledger has written the empty
\* terminal file once and returned 0
EmptyLedgerRetry ==
  (r_pc = "exited" /\ r_exit_code # 2 /\ EmptyLedger) =>
    /\ r_launch_log = <<>>
    /\ ultimate_failure_file = DictFile(EmptyMap)
    /\ ultimate_writes = 1
    /\ r_exit_code = 0

SamplingStep ==
  pc = "monitor" /\ pc' # "monitor" /\ monitor_report' # <<>>

\* C23: a sampling step of the resource monitor leaves the active set, the
\* index of the next date, the completed and failed lists, the ledger and
\* the concurrency bound as they were, whatever the memory reading.
C23_MonitorObserveOnly ==
  [][SamplingStep =>
       UNCHANGED <<active_processes, date_index, completed_dates,
                   failed_dates, failed_jobs_file, failed_jobs_dir,
                   max_processes>>]_vars

\* a sample with a reading above the critical threshold was taken while
\* MaxProcs workers were active, one of them ended, and dates were waiting
C23_Witness ==
  /\ monitor_report # <<>>
  /\ monitor_report[1].percent_used > MEMORY_CRITICAL_THRESHOLD
  /\ monitor_report[1].alerts = <<"CRITICAL">>
  /\ Len(active_processes) = MaxProcs
  /\ \E i \in 1..Len(active_processes) : active_processes[i].exited
  /\ date_index < Len(dates_to_process)
  /\ max_processes = MaxProcs

(***************************************************************************)
(* C24.  The exit code of a worker.                                        *)
(***************************************************************************)
\* the worker has saved the daily file of its date and the file is on disk
\* with content that passes validation
ProducedAndValid ==
  /\ w_result.daily_file # <<>>
  /\ Has(daily_files, w_result.daily_file[1])
  /\ validate_daily_file(Get(daily_files, w_result.daily_file[1]))

\* C24: a worker that ends by its own code ends with 0 when it produced
\* the daily file and validation passed, and with 1 in every other case.
C24_WorkerExitCode ==
  w_pc = "exit" =>
    /\ w_exit_code \in {0, 1}
    /\ w_exit_code = 0 <=> ProducedAndValid

(***************************************************************************)
(* C25.  Who writes failure records.                                       *)
(***************************************************************************)
\* a step of the worker's own code
WorkerCodeStep == w_pc \notin {"idle", "exit"} /\ w_pc' # w_pc

\* the failure records on disk: the ledger file and the directory of
\* per-date records
FailureRecords == <<failed_jobs_file, failed_jobs_dir>>

\* C25: the failure records are written by the coordinating process alone:
\* no step of a worker's own code changes them.
C25_SingleWriter ==
  [][WorkerCodeStep => UNCHANGED FailureRecords]_vars

(***************************************************************************)
(* C26.  A launch error as a failure of the ledger.                        *)
(***************************************************************************)
\* the ledger file holds a record under the YYYY-MM-DD string of date
HasRecordOf(file, date) ==
  /\ file.kind = "dict"
  /\ \E i \in 1..Len(file.map) : CanonicalKey(file.map[i].key, date)

\* C26: a date whose worker could not be started is not in the active set
\* and has a record in the Failure Ledger (single-file-ledger driver, no
\* write of the ledger having raised).
C26_LaunchErrorRecorded ==
  \A k \in 1..Len(launch_errors) :
    /\ launch_errors[k] \notin Range(DatesOf(active_processes))
    /\ (variant = "pipeline" /\ ~clear_warning /\ ledger_errors = <<>>)
         => HasRecordOf(failed_jobs_file, launch_errors[k])

(***************************************************************************)
(* C27.  The retry step cannot be started.                                 *)
(***************************************************************************)
\* the driver has logged FATAL for the launch of the retry script
RetryLaunchRaised == retry_result = "raised"

\* C27: when the retry step cannot be started the driver goes on to its
\* end: no retry script runs, completed_dates and failed_dates stay as the
\* main pass left them, the final memory report is emitted and the run
\* returns the verdict of the main pass, which is failure.
C27_RetryLaunchFailure ==
  /\ [](RetryLaunchRaised =>
          /\ pc \in {"final", "done"}
          /\ r_pc = "idle"
          /\ Len(failed_dates) > 0
          /\ Len(completed_dates) + Len(failed_dates) + Len(launch_errors)
               = Len(dates_to_process)
          /\ pc = "done" =>
               /\ exit_code = 1
               /\ monitor_report # <<>>
               /\ monitor_report[1].context = "Final")
  /\ [][RetryLaunchRaised' =>
          UNCHANGED <<completed_dates, failed_dates>>]_vars

\* the driver has ended after a retry step that could not be started
C27_Witness ==
  /\ RetryLaunchRaised
  /\ pc = "done"
  /\ exit_code = 1
  /\ Len(completed_dates) > 0
  /\ Len(failed_dates) > 0
  /\ monitor_report = memory_report("Final", MEMORY_CRITICAL_THRESHOLD + 1)

(***************************************************************************)
(* C28.  Removal of handles.                                               *)
(***************************************************************************)
\* the handle h is in the set of handles
HandleIn(h, handles) ==
  \E i \in 1..Len(handles) :
    handles[i].pid = h.pid /\ handles[i].date = h.date

\* between two states of an active set, polled tells whether the step is a
\* poll step: a handle leaves only in a poll step and only when its process
\* has ended, and a poll step leaves no handle whose process had ended
HandleRemoval(before, after, polled) ==
  \A i \in 1..Len(before) :
    /\ ~HandleIn(before[i], after) => (polled /\ before[i].exited)
    /\ (polled /\ before[i].exited) => ~HandleIn(before[i], after)

\* the number of handles whose process has ended
EndedCount(handles) ==
  Cardinality({i \in 1..Len(handles) : handles[i].exited})

\* C28: a handle leaves the active set only in the poll step that observed
\* its exit, and in that very step; a poll step classifies each ended
\* handle once, and no other step classifies.  For the main pass and for
\* the retry pass.
C28_HandleRemoval ==
  [][/\ HandleRemoval(active_processes, active_processes',
                      pc = "check" /\ pc' = "launch")
     /\ Len(completed_dates') + Len(failed_dates')
          = Len(completed_dates) + Len(failed_dates)
              + IF pc = "check" /\ pc' = "launch"
                  THEN EndedCount(active_processes) ELSE 0
     /\ HandleRemoval(r_active_processes, r_active_processes',
                      r_pc = "check" /\ r_pc' = "launch")
     /\ Len(r_completed_dates') + Len(r_failed_dates')
          = Len(r_completed_dates) + Len(r_failed_dates)
              + IF r_pc = "check" /\ r_pc' = "launch"
                  THEN EndedCount(r_active_processes) ELSE 0]_vars

\* a poll step of the main pass has taken out the handle of an ended
\* worker and left the handle of a running one
C28_Witness ==
  /\ pc = "launch"
  /\ Len(completed_dates) + Len(failed_dates) = 1
  /\ Len(active_processes) = 1
  /\ ~active_processes[1].exited
  /\ active_processes[1].date = dates_to_process[2]

(***************************************************************************)
(* C29.  No cancellation.                                                  *)
(***************************************************************************)
\* the worker that hangs has been launched
HungLaunched ==
  \E i \in 1..Len(active_processes) : active_processes[i].date = start_date

\* the process of some handle that stays in the active set ends in this
\* step
SomeWorkerEnds ==
  \E i \in 1..Len(active_processes), j \in 1..Len(active_processes') :
    /\ active_processes'[j].pid = active_processes[i].pid
    /\ active_processes'[j].date = active_processes[i].date
    /\ ~active_processes[i].exited
    /\ active_processes'[j].exited

\* C29: no step of the coordinator ends a worker, and a handle leaves the
\* active set only when its process has ended; so while a launched worker
\* hangs the loop never ends and neither the retry pass nor the final
\* report is reached; with room for a second worker every other date is
\* still launched.
C29_NoCancellation ==
  /\ [][/\ SomeWorkerEnds =>
             UNCHANGED <<pc, date_index, launch_log, completed_dates,
                         failed_dates, ledger_vars>>
        /\ HandleRemoval(active_processes, active_processes',
                         pc = "check" /\ pc' = "launch")]_vars
  /\ [](HungLaunched =>
          /\ pc \in {"check", "launch", "monitor"}
          /\ r_pc = "idle"
          /\ exit_code = -1)
  /\ (max_processes > 1) =>
       <>(pc # "start" /\ date_index = Len(dates_to_process))

\* the pass goes on polling the hung worker alone after every other date
\* of the range was launched and has ended
C29_Witness ==
  /\ pc = "check"
  /\ HungLaunched
  /\ Len(active_processes) = 1
  /\ ~active_processes[1].exited
  /\ date_index = MaxDates
  /\ Len(completed_dates) + Len(failed_dates) = MaxDates - 1

(***************************************************************************)
(* C30.  A launch failure drops the date.                                  *)
(***************************************************************************)
\* C30: a date whose launch raised is not in the active set, is in neither
\* completed_dates nor failed_dates, has had its one launch attempt, and
\* lies before the index of the next date to launch.
C30_LaunchFailureDropsDate ==
  \A k \in 1..Len(launch_errors) :
    LET date == launch_errors[k]
    IN /\ date \notin Range(DatesOf(active_processes))
       /\ date \notin Range(completed_dates)
       /\ date \notin Range(failed_dates)
       /\ Cardinality({j \in 1..Len(launch_log) :
                         launch_log[j].date = date}) = 1
       /\ \E j \in 1..date_index : dates_to_process[j] = date

\* the pass has ended with its second date dropped by a launch failure and
\* the dates around it launched
C30_Witness ==
  /\ pc = "drained"
  /\ Len(dates_to_process) = MaxDates
  /\ launch_errors = <<dates_to_process[2]>>
  /\ Len(completed_dates) + Len(failed_dates) = MaxDates - 1

(***************************************************************************)
(* The whole program with monitoring blocks that report in both passes,    *)
(* for the driver of pipeline/src and a range of at most two dates (the    *)
(* monitoring code of src/driver.py is the same).                          *)
(***************************************************************************)
MonitoredInit ==
  /\ Init
  /\ variant = "pipeline"
  /\ start_date = DateAt(0)
  /\ end_date \in {DateAt(0), DateAt(1)}

MonitoredNext ==
  \/ MonitorNext
  \/ \E outcome \in {"run", "noscript", "raise"} : StartRetry(outcome)
  \/ NoRetry
  \/ RetryReturned
  \/ \E percent_used \in MemoryReadings : Return(percent_used)
  \/ RetryMonitorNext

MonitoredSpec == MonitoredInit /\ [][MonitoredNext]_vars

\* the alert lines of a report are those of the thresholds of config.py
Classified(report) ==
  \A i \in DOMAIN report :
    /\ (\E k \in DOMAIN report[i].alerts : report[i].alerts[k] = "CRITICAL")
         <=> report[i].percent_used > MEMORY_CRITICAL_THRESHOLD
    /\ (\E k \in DOMAIN report[i].alerts : report[i].alerts[k] = "WARNING")
         <=> /\ report[i].percent_used > MEMORY_WARNING_THRESHOLD
             /\ report[i].percent_used <= MEMORY_CRITICAL_THRESHOLD

\* C31: every memory report of the main driver and every memory report of
\* the retry script carries a critical alert and no warning when
\* percent_used is above MEMORY_CRITICAL_THRESHOLD, a warning and no
\* critical alert when it is above MEMORY_WARNING_THRESHOLD and not above
\* MEMORY_CRITICAL_THRESHOLD, and no alert otherwise.
C31_MemoryThresholds ==
  /\ Classified(monitor_report)
  /\ Classified(r_monitor_report)

(***************************************************************************)
(* C32.  A worker that has ended when the process sampler queries it.      *)
(***************************************************************************)
\* a step of the retry loop in which the monitoring block sampled
RetrySamplingStep ==
  r_pc = "monitor" /\ r_pc' # "monitor" /\ r_monitor_report' # <<>>

\* the sampler went through the whole active set: one line per handle, in
\* order, a handle whose process has ended has a line with one of the
\* observations allowed, a running one its status, and the set is as before
SampledAll(report, before, after, allowed) ==
  /\ Len(report[1].processes) = Len(before)
  /\ \A i \in 1..Len(before) :
       /\ report[1].processes[i].pid = before[i].pid
       /\ before[i].exited => report[1].processes[i].status \in allowed
       /\ ~before[i].exited => report[1].processes[i].status = "running"
  /\ after = before

\* C32: in every sampling step of either pass, a handle of the active set
\* whose process has already ended gets a "Process ended" line, the step
\* completes, every other handle is sampled too, and the handle is still in
\* the active set after the step.
C32_ProcessEndedObservation ==
  [][/\ SamplingStep =>
          SampledAll(monitor_report', active_processes, active_processes',
                     {"ended"})
     /\ RetrySamplingStep =>
          SampledAll(r_monitor_report', r_active_processes,
                     r_active_processes', {"ended"})]_vars

\* C32 as the code has it: the line of a handle whose process has ended is
\* either "Process ended" (psutil raised NoSuchProcess) or the status line
\* of the child that is not reaped yet (psutil reports status zombie); the
\* step completes, every other handle is sampled, and the handle is still in
\* the active set after the step.
C32_EndedOrZombieObservation ==
  [][/\ SamplingStep =>
          SampledAll(monitor_report', active_processes, active_processes',
                     EndedObservations)
     /\ RetrySamplingStep =>
          SampledAll(r_monitor_report', r_active_processes,
                     r_active_processes', EndedObservations)]_vars

\* the retry pass sampled two workers of which the first had ended and the
\* second was running; both are still in the active set
C32_Witness ==
  /\ r_pc = "check"
  /\ r_monitor_report # <<>>
  /\ Len(r_active_processes) = 2
  /\ Len(r_monitor_report[1].processes) = 2
  /\ r_active_processes[1].exited
  /\ r_monitor_report[1].processes[1].status \in EndedObservations
  /\ r_monitor_report[1].processes[2].status = "running"

(***************************************************************************)
(* C33.  The command line of a worker and the worker it starts.            *)
(***************************************************************************)
\* the worker in hand was started by a coordinator (not by hand)
LaunchedWorker == w_pc # "idle" /\ w_pid # 0

\* C33: every worker started by the main pass or by the retry pass has the
\* positional arguments its single_download.py asks for, so that it is not
\* turned away by the argument check: the date, and with src/single_download
\* the asset href and the two parameter files after it.
C33_InvocationMatchesWorker ==
  LaunchedWorker =>
    /\ Len(w_argv) = worker_argc
    /\ strptime(w_argv[1]) # <<>>
    /\ variant = "config" =>
         w_argv = <<w_argv[1], asset_href, storage_file, kwargs_file>>

(***************************************************************************)
(* C34.  The ledger file and failed_dates when the retry step starts.      *)
(***************************************************************************)
\* the main pass has drained, the retry step has not started, and neither
\* the clear nor a write of the ledger has raised
HandOver == pc = "drained" /\ ~clear_warning /\ ledger_errors = <<>>

\* C34: at the hand-over with no failed clear and no failed ledger write,
\* the keys of the ledger file the retry script reads (data/failed_jobs.json)
\* are exactly the dates of failed_dates, with either driver.
C34_LedgerMatchesFailedList ==
  HandOver =>
    Keys(LedgerMap(failed_jobs_file)) =
      {strftime(failed_dates[i]) : i \in 1..Len(failed_dates)}

(***************************************************************************)
(* C35.  The retry step and the working ledger.                            *)
(***************************************************************************)
\* the retry script is between its start and its end
RetryRunning == r_pc \notin {"idle", "exited"}

\* C35: no step taken while the retry script runs changes the ledger file
\* (or the directory of per-date records): removals and updates are made in
\* remaining_failures only; and the one file of failure records the script
\* writes is ultimate_failures.json, written from remaining_failures after
\* the loop (or empty, when there is nothing to load).
C35_RetryLeavesLedger ==
  /\ [][RetryRunning => UNCHANGED <<failed_jobs_file, failed_jobs_dir>>]_vars
  /\ [][ultimate_failure_file' # ultimate_failure_file =>
          /\ r_pc \in {"begin", "finish"}
          /\ ultimate_failure_file' = DictFile(remaining_failures')]_vars

\* the retry script has ended after removing or updating a record in
\* memory: the terminal file differs from the ledger file, which still
\* holds what was loaded
C35_Witness ==
  /\ r_pc = "exited"
  /\ ultimate_writes = 1
  /\ failed_jobs_file.kind = "dict"
  /\ Len(r_completed_dates) > 0
  /\ Len(r_failed_dates) > 0
  /\ remaining_failures # failed_jobs_file.map
  /\ ultimate_failure_file = DictFile(remaining_failures)

(***************************************************************************)
(* C36.  A worker of the retry pass that cannot be started.                *)
(***************************************************************************)
\* an iteration of the launching loop of the retry pass in which
\* launch_retry_subprocess returned None
RetryLaunchFailed ==
  /\ r_pc = "launch"
  /\ r_date_index' = r_date_index + 1
  /\ r_active_processes' = r_active_processes

\* the dates the retry pass tried to launch and for which no worker was
\* started
NeverStarted ==
  {r_launch_log[j].date : j \in 1..Len(r_launch_log)}
    \ (Range(r_completed_dates) \cup Range(r_failed_dates)
         \cup Range(DatesOf(r_active_processes)))

\* C36: a failed launch of the retry pass adds the date to neither
\* r_completed_dates nor r_failed_dates and leaves remaining_failures as it
\* was; and when the terminal file has been written, every ledger record of
\* a date for which no worker could be started is in it exactly as it is in
\* the ledger.
C36_RetryLaunchFailureKeepsRecord ==
  /\ [][RetryLaunchFailed =>
          UNCHANGED <<r_completed_dates, r_failed_dates,
                      remaining_failures>>]_vars
  /\ [](r_pc = "exited" /\ ultimate_writes = 1 =>
          \A k \in Keys(LedgerMap(failed_jobs_file)) :
            (strptime(k) # <<>> /\ strptime(k)[1] \in NeverStarted) =>
              /\ Has(ultimate_failure_file.map, k)
              /\ Get(ultimate_failure_file.map, k)
                   = Get(failed_jobs_file.map, k))

\* of three ledger dates the second could not be started, the first was
\* retried with success and the third failed again; the terminal file holds
\* the second record as the main pass wrote it
C36_Witness ==
  /\ r_pc = "exited"
  /\ ultimate_writes = 1
  /\ failed_jobs_file =
       DictFile(RecordedLedger(<<DateAt(0), DateAt(1), DateAt(2)>>))
  /\ NeverStarted = {DateAt(1)}
  /\ r_completed_dates = <<DateAt(0)>>
  /\ r_failed_dates = <<DateAt(2)>>
  /\ Get(ultimate_failure_file.map, strftime(DateAt(1)))
       = FailureRecord(strftime(DateAt(1)), 1, 0)

(***************************************************************************)
(* C37.  Ledger keys that are not canonical date strings.                  *)
(***************************************************************************)
\* the retry script has written the terminal file from a ledger it loaded
TerminalWritten ==
  r_pc = "exited" /\ ultimate_writes = 1 /\ failed_jobs_file.kind = "dict"

\* a record whose key does not parse gives no date to retry and is in the
\* terminal file as it is in the ledger
UnparsableCarried ==
  TerminalWritten =>
    /\ Len(r_dates_to_process) =
         Cardinality({i \in 1..Len(failed_jobs_file.map) :
                        strptime(failed_jobs_file.map[i].key) # <<>>})
    /\ \A k \in Keys(failed_jobs_file.map) :
         strptime(k) = <<>> =>
           /\ Has(ultimate_failure_file.map, k)
           /\ Get(ultimate_failure_file.map, k)
                = Get(failed_jobs_file.map, k)

\* a poll step removes a key only if it is the canonical string of the date
\* of a worker that ended with status 0
RemovedOnlyCanonical ==
  RetryPollStep =>
    \A k \in Keys(remaining_failures) \ Keys(remaining_failures') :
      \E d \in RetryEnded({0}) : k = strftime(d)

\* no record of the terminal file belongs to a date that was retried with
\* success
TerminalNotSucceeded ==
  TerminalWritten =>
    \A k \in Keys(ultimate_failure_file.map) :
      strptime(k) # <<>> => strptime(k)[1] \notin Range(r_completed_dates)

\* C37: a ledger record whose key cannot be parsed as a date is never
\* retried and is carried unchanged into the terminal file; a record is
\* removed on a retry success only when its key is the canonical string of
\* the date; and every record of the terminal file was either not retried or
\* did not succeed.
C37_NonCanonicalKeys ==
  /\ []UnparsableCarried
  /\ [][RemovedOnlyCanonical]_vars
  /\ []TerminalNotSucceeded

(***************************************************************************)
(* C38.  A daily file that failed validation.                              *)
(***************************************************************************)
\* the worker leaves the end of __main__ with its exit status set
WorkerFinishStep == w_pc = "finish" /\ w_pc' = "exit"

\* the worker produced the daily file and its validation failed
FailedValidation ==
  /\ variant = "pipeline"
  /\ w_result.daily_file # <<>>
  /\ ~w_result.validation_passed

\* C38: a worker that ends with status 0 leaves the daily file of its date
\* in place; a worker whose file failed validation ends with status 1 and
\* has removed the file, unless the removal raised, which it reports.
C38_FailedValidationLeavesNoOutput ==
  [][WorkerFinishStep =>
       /\ w_exit_code' = 0 => Has(daily_files', DailyFileOf(w_argv[1]))
       /\ FailedValidation =>
            /\ w_exit_code' = 1
            /\ Has(daily_files, w_result.daily_file[1])
            /\ ~w_cleanup_error' =>
                 ~Has(daily_files', w_result.daily_file[1])]_vars

\* a worker of the pipeline driver saved a file outside the QC ranges, and
\* has removed it and set status 1
C38_Witness ==
  /\ w_pc = "exit"
  /\ w_pid # 0
  /\ FailedValidation
  /\ w_exit_code = 1
  /\ ~w_cleanup_error
  /\ ~Has(daily_files, w_result.daily_file[1])

(***************************************************************************)
(* C39.  The date range.  get_dates_to_process is applied by the start of  *)
(* run() to start and end dates around the ends of months and years and    *)
(* around a leap day.                                                      *)
(***************************************************************************)
RangeDates ==
  { [y |-> 1987, m |-> 2, d |-> 28], [y |-> 1987, m |-> 3, d |-> 1],
    [y |-> 1987, m |-> 12, d |-> 31], [y |-> 1988, m |-> 1, d |-> 1],
    [y |-> 1988, m |-> 2, d |-> 28], [y |-> 1988, m |-> 2, d |-> 29],
    [y |-> 1988, m |-> 3, d |-> 1], START_DATE, DateAt(1),
    [y |-> 1988, m |-> 4, d |-> 30] }

\* the longest range taken, in days
MaxSpan == 92

RangeInit ==
  /\ variant \in {"pipeline", "config"}
  /\ start_date \in RangeDates
  /\ end_date \in RangeDates
  /\ toordinal(end_date) - toordinal(start_date) <= MaxSpan
  /\ max_processes = 1
  /\ pc = "start"
  /\ dates_to_process = <<>>
  /\ date_index = 0
  /\ active_processes = <<>>
  /\ completed_dates = <<>>
  /\ failed_dates = <<>>
  /\ failed_jobs_file = DictFile(EmptyMap)
  /\ failed_jobs_dir = EmptyMap
  /\ clock = 1
  /\ launch_log = <<>>
  /\ launch_errors = <<>>
  /\ ledger_errors = <<>>
  /\ clear_warning = FALSE
  /\ monitor_report = <<>>
  /\ retry_result = "none"
  /\ exit_code = -1
  /\ r_pc = "idle"
  /\ r_dates_to_process = <<>>
  /\ r_date_index = 0
  /\ r_active_processes = <<>>
  /\ r_completed_dates = <<>>
  /\ r_failed_dates = <<>>
  /\ remaining_failures = EmptyMap
  /\ ultimate_failure_file = AbsentFile
  /\ ultimate_writes = 0
  /\ r_monitor_report = <<>>
  /\ r_launch_log = <<>>
  /\ r_exit_code = -1
  /\ w_pc = "idle"
  /\ w_pid = 0
  /\ w_argv = <<>>
  /\ w_result = NoResult
  /\ w_exit_code = -1
  /\ w_cleanup_error = FALSE
  /\ daily_files = EmptyMap

RangeNext ==
  \E ok \in BOOLEAN, percent_used \in MemoryReadings :
    RunStart(ok, percent_used)

RangeSpec == RangeInit /\ [][RangeNext]_vars

\* the sequence holds every date from first to last once, in calendar order
EveryDayOnce(r, first, last) ==
  /\ Len(r) = toordinal(last) - toordinal(first) + 1
  /\ r[1] = first
  /\ r[Len(r)] = last
  /\ \A i \in 1..(Len(r) - 1) :
       /\ toordinal(r[i + 1]) = toordinal(r[i]) + 1
       /\ r[i + 1] = AddDay(r[i])
  /\ \A d \in RangeDates :
       (DateLE(first, d) /\ DateLE(d, last)) => \E i \in 1..Len(r) : r[i] = d

\* C39: get_dates_to_process gives every calendar date from start_date to
\* end_date inclusive, ascending, without duplicates or gaps, of length
\* (end_date - start_date).days + 1, when start_date <= end_date, and the
\* empty list when start_date is after end_date; dates_for_range gives the
\* same list; and it is the list run() works on.
C39_DateRange ==
  LET r == get_dates_to_process(start_date, end_date)
  IN /\ IF DateLE(start_date, end_date)
          THEN EveryDayOnce(r, start_date, end_date)
          ELSE r = <<>>
     /\ dates_for_range(start_date, end_date) = r
     /\ pc \notin {"start", "done"} => dates_to_process = r

\* run() has built the range from the last day of 1987 to the first of March
\* 1988, across the leap day: 62 dates
C39_Witness ==
  /\ pc = "check"
  /\ start_date = [y |-> 1987, m |-> 12, d |-> 31]
  /\ end_date = [y |-> 1988, m |-> 3, d |-> 1]
  /\ Len(dates_to_process) = 62
  /\ \E i \in 1..Len(dates_to_process) :
       dates_to_process[i] = [y |-> 1988, m |-> 2, d |-> 29]

(***************************************************************************)
(* C40.  The counts of the periodic progress line.                         *)
(***************************************************************************)
\* C40: in every periodic report of the main pass the remaining count is
\* the number of dates not launched yet, it is not negative, and completed,
\* failed, active and remaining add up to the number of dates.
C40_ProgressAccounting ==
  [][SamplingStep =>
       LET p == monitor_report'[1].progress
       IN /\ p.remaining = Len(dates_to_process) - date_index
          /\ p.remaining >= 0
          /\ p.completed + p.failed + p.active + p.remaining
               = Len(dates_to_process)
          /\ p.completed = Len(completed_dates)
          /\ p.failed = Len(failed_dates)
          /\ p.active = Len(active_processes)]_vars

====
